---------------------------- MODULE Spec2Model ----------------------------
(***************************************************************************)
(* Verification model of the synthetic population and assignment engine   *)
(* of src/src/simulador_reduced.py:                                        *)
(*   - normalizar_pesos             (weight normaliser)                    *)
(*   - generar_dim_cliente_masiva   (customer lifecycle simulator)         *)
(*   - generar_dim_ruta             (route / logistics assignment)         *)
(*   - the DB_MEMORIA generation sequence (dependency orchestrator)        *)
(*   - asegurar_columnas and the schema tail shared by the generators      *)
(*   - the random sources along the generation sequence, in two runs       *)
(*   - the churn draws of the customer simulator, in two runs              *)
(*   - the holiday-impact pass of generar_dim_tiempo                       *)
(*   - asegurar_columnas applied twice, over every declarable type         *)
(*   - normalizar_pesos on a rescaled copy of its input                    *)
(*   - the customer simulator run inside its step of the sequence          *)
(*   - generar_dim_cedi feeding generar_dim_ruta                           *)
(* Each component has its own specifications; the variables of the        *)
(* components a specification does not exercise stay at their idle values. *)
(***************************************************************************)
EXTENDS Integers, Sequences, FiniteSets, TLC

VARIABLES
    \* ---- normalizar_pesos
    lista,        \* the list of dicts being normalised (mutated in place)
    suma_total,   \* local suma_total
    norm_i,       \* position of the annotation loop (next item to write)
    norm_pc,      \* "inicio" | "bucle" | "retorno" | "ValueError" | "KeyError"
    \* ---- generar_dim_cliente_masiva
    df_geo,                       \* rows of lf_geografia: the weight of each province
    df_canal,                     \* rows of lf_canal: [Nombre_Canal, Peso_Mercado_Normalizado]
    anos_simulacion,              \* ANOS_SIMULACION
    num_clientes_por_ano,         \* NUM_CLIENTES_POR_ANO, by position in ANOS_SIMULACION
    mes_dia_alta,                 \* the month and day the run's random.randint calls give
    clientes_activos_historicos,  \* the accumulated customer records
    new_client_data,              \* the records created so far in the current year
    cli_i,                        \* position of the year loop in ANOS_SIMULACION (from 1)
    idx_churn,                    \* idx_candidatos[churn_decisions] of the last churn step
    current_active_customers,     \* local of step 3.2
    num_nuevos,                   \* local of step 3.3
    current_customer_id_counter,
    cli_pc,       \* "idle" | "churn" | "objetivo" | "crecer" | "consolidar" | "fin" | "ValueError"
    \* ---- the DB_MEMORIA generation sequence
    DB_MEMORIA,   \* the keys of the registry: the tables registered so far
    archivos,     \* the parquet files written under DIRS["OUTPUT"]
    orq_i,        \* position in the generation sequence (from 1)
    orq_pc,       \* "idle" | "argumentos" | "construir" | "esquema" | "guardar" | "registrar" | "fin"
    orq_error,    \* "" | "KeyError" | "Exception": the exception that ended the run
    \* ---- generar_dim_ruta
    df_cedi,                 \* rows of lf_cedi: [CEDI_ID, Region_Operacion, Capacidad_Pallets]
    df_geografia,            \* rows of lf_geografia: [ID_Provincia, Region]
    df_vehiculo,             \* rows of lf_vehiculo: [ID_Vehiculo, CEDI_Asignado_ID, Estado_Vehiculo]
    df_vendedor,             \* rows of lf_vendedor: [Vendedor_ID, CEDI_Base_ID, Estado_Vendedor]
    rutas_data,              \* per appended route, the columns fixed by the loops:
                             \* [ID_Ruta, ID_CEDI_Origen]
    ultima_ruta,             \* the whole dict of the route appended last (<<>> before the first)
    distancia_lineal,        \* local of the route loop: the geodesic distance, in km
    consecutivo_ruta,
    ruta_i,                  \* position of the loop over df_cedi (from 1)
    geos_objetivo,           \* locals of the current center: sets of row positions
    vehiculos_disponibles,
    vendedores_disponibles,
    num_rutas_por_cedi,
    ruta_k,                  \* routes generated so far for the current center
    ruta_pc,      \* "idle" | "cedi" | "rutas" | "marco" | "fin" | "IndexError" | "ColumnNotFoundError"
    \* ---- asegurar_columnas and the schema tail of a generator
    df,                      \* the frame: [cols: sequence of [nombre, dtype, valor], filas]
    df_entrada,              \* the frame as the generator built it
    schema,                  \* SCHEMAS[tabla]: sequence of [col, dtype], in declaration order
    valores_defecto,         \* the columns with an explicit default
    esq_i,                   \* position of the loop over schema.items() (from 1)
    parquet,                 \* the frame in the parquet file (<<>> before it is written)
    registro,                \* the frame behind the registry entry (<<>> before)
    esq_pc,       \* "idle" | "columnas" | "devuelto" | "casteado" | "guardado" | "registrado" |
                  \* "InvalidOperationError" | "OSError"
    \* ---- the random sources of two runs of the script
    procesos,     \* per run: [hoy, random_estado, faker_estado, i, tablas, resiembras]
    \* ---- the churn draws of two runs of generar_dim_cliente_masiva
    metas_por_ano,     \* NUM_CLIENTES_POR_ANO, by position in ANOS_SIMULACION
    churn_rate_anual,  \* CHURN_RATE_ANUAL, in hundredths
    corridas,     \* per run: [rng, random_estado, cs, churn, i]
    \* ---- the holiday-impact pass of generar_dim_tiempo
    feriados_eager,       \* df["EsFeriado"]: one boolean per day of the range
    impacto_feriado_arr,  \* the multipliers, in thousandths
    tmp_i,                \* position of the loop over the days (from 0, as in the code)
    tmp_accesos,          \* the indices the pass has read or written in the two arrays
    tmp_pc,       \* "idle" | "bucle" | "columna" | "fin" | "IndexError"
    \* ---- asegurar_columnas applied to its own output
    salida_1,     \* the frame the first application returned (<<>> before)
    pasada_esq    \* 0 idle | 1 first application | 2 second application

varsNorm == <<lista, suma_total, norm_i, norm_pc>>

varsCli == <<df_geo, df_canal, anos_simulacion, num_clientes_por_ano, mes_dia_alta,
             clientes_activos_historicos,
             new_client_data, cli_i, idx_churn, current_active_customers, num_nuevos,
             current_customer_id_counter, cli_pc>>

varsOrq == <<DB_MEMORIA, archivos, orq_i, orq_pc, orq_error>>

varsRuta == <<df_cedi, df_geografia, df_vehiculo, df_vendedor, rutas_data, ultima_ruta, distancia_lineal,
              consecutivo_ruta, ruta_i, geos_objetivo, vehiculos_disponibles,
              vendedores_disponibles, num_rutas_por_cedi, ruta_k, ruta_pc>>

varsEsq == <<df, df_entrada, schema, valores_defecto, esq_i, parquet, registro, esq_pc>>

varsProc == <<procesos>>

varsSim == <<metas_por_ano, churn_rate_anual, corridas>>

varsTiempo == <<feriados_eager, impacto_feriado_arr, tmp_i, tmp_accesos, tmp_pc>>

varsDoble == <<salida_1, pasada_esq>>

vars == <<varsNorm, varsCli, varsOrq, varsRuta, varsEsq, varsProc, varsSim, varsTiempo, varsDoble>>

(***************************************************************************)
(* Bounds of the model                                                     *)
(***************************************************************************)
MaxItems == 6    \* longest weight list handed to normalizar_pesos
MaxPeso == 2     \* largest nominal weight of an item
NumAnos == 3     \* simulated years (a prefix of ANOS_SIMULACION)
MaxMeta == 2     \* largest yearly target of active customers
NumAnosEntradas == 1   \* simulated years when the input tables vary
MaxMetaEntradas == 2   \* largest yearly target when the input tables vary
NumCedis == 2          \* rows of the center table handed to generar_dim_ruta
MaxVehiculos == 3      \* rows of the vehicle table
MaxVendedores == 2     \* rows of the sales-agent table
MaxGeos == 2           \* rows of the geography table
MaxFlota == 10         \* vehicles of the one-center fleet
MaxColumnas == 2       \* columns of a generated frame, and of a schema
MaxFilas == 1          \* rows of a generated frame
MaxDia == 1            \* days on which a run of the script can take place
MaxEstadoRandom == 1   \* states the global random module can be found in
NumDias == 5           \* days of the date range
MaxItemsIdem == 3      \* items of a list normalised twice
MaxPesoIdem == 4       \* largest weight of a list normalised twice
MaxEscala == 3         \* largest factor the weights of a list are multiplied by

(***************************************************************************)
(* Python dicts as functions from keys to values                           *)
(***************************************************************************)
DictGet(d, k, defecto) == IF k \in DOMAIN d THEN d[k] ELSE defecto

DictSet(d, k, v) == [c \in DOMAIN d \cup {k} |-> IF c = k THEN v ELSE d[c]]

RECURSIVE SumaSeq(_)
SumaSeq(s) == IF s = <<>> THEN 0 ELSE Head(s) + SumaSeq(Tail(s))

Abs(x) == IF x < 0 THEN -x ELSE x

(***************************************************************************)
(* normalizar_pesos(lista, "Peso", "Peso_Normalizado")                     *)
(* Weights are non-negative integers; a normalised weight is kept in       *)
(* millionths (round(x, 6) leaves exactly six decimals).                   *)
(***************************************************************************)
MILLON == 1000000

\* An item either has the weight column or lacks it (item.get(columna, 0)).
ItemsEntrada == {[c \in {} |-> 0]} \cup {[c \in {"Peso"} |-> w] : w \in 0..MaxPeso}

ListasEntrada == UNION {[1..n -> ItemsEntrada] : n \in 0..MaxItems}

\* A total taken to be 1 already, whatever the weights.
SumaFija(l) == 1

\* sum(item.get(columna, 0) for item in lista)
SumaPesos(l) == SumaSeq([i \in 1..Len(l) |-> DictGet(l[i], "Peso", 0)])

\* The quotient cut to six decimals instead of rounded.
Redondear6Truncado(num, den) == (num * MILLON) \div den

\* The quotient rounded to two decimals, in millionths.
Redondear2(num, den) ==
    LET q == (num * 100) \div den
        r == (num * 100) % den
    IN  (IF 2 * r >= den THEN q + 1 ELSE q) * 10000

\* num / den in millionths, quotient and remainder, for 0 <= num <= den: the
\* division is carried out three decimals at a time to stay within 32 bits.
Cociente6(num, den) ==
    LET q1 == (num * 1000) \div den
        r1 == (num * 1000) % den
    IN  [q |-> q1 * 1000 + (r1 * 1000) \div den, r |-> (r1 * 1000) % den]

\* round(num / den, 6) in millionths, for num >= 0 and den > 0: Python rounds
\* the quotient to the nearest millionth, an exact tie going to the even one.
Redondear6(num, den) ==
    LET q == Cociente6(num, den).q
        r == Cociente6(num, den).r
    IN  IF 2 * r < den THEN q
        ELSE IF 2 * r > den THEN q + 1
        ELSE IF q % 2 = 0 THEN q ELSE q + 1

\* A normaliser that annotates zeros and returns when the total is zero.
NormSumarTolerante ==
    /\ norm_pc = "inicio"
    /\ suma_total' = SumaPesos(lista)
    /\ IF SumaPesos(lista) = 0
       THEN /\ norm_pc' = "retorno"
            /\ lista' = [i \in 1..Len(lista) |-> DictSet(lista[i], "Peso_Normalizado", 0)]
            /\ norm_i' = Len(lista) + 1
       ELSE /\ norm_pc' = "bucle"
            /\ norm_i' = 1
            /\ lista' = lista

\* Lines 187-190: the total, and the ValueError when it is zero.
NormSumar ==
    /\ norm_pc = "inicio"
    /\ suma_total' = SumaPesos(lista)
    /\ norm_i' = 1
    /\ lista' = lista
    /\ norm_pc' = IF SumaPesos(lista) = 0 THEN "ValueError" ELSE "bucle"

\* Lines 196-197: one iteration of the annotation loop; item[columna] raises
\* KeyError on an item without the weight column.
NormIterar ==
    /\ norm_pc = "bucle"
    /\ norm_i <= Len(lista)
    /\ UNCHANGED suma_total
    /\ IF "Peso" \in DOMAIN lista[norm_i]
       THEN /\ lista' = [lista EXCEPT ![norm_i] =
                            DictSet(@, "Peso_Normalizado", Redondear6(@["Peso"], suma_total))]
            /\ norm_i' = norm_i + 1
            /\ norm_pc' = IF norm_i = Len(lista) THEN "retorno" ELSE "bucle"
       ELSE /\ norm_pc' = "KeyError"
            /\ UNCHANGED <<lista, norm_i>>

(***************************************************************************)
(* generar_dim_cliente_masiva(lf_geografia, lf_canal, lf_cluster)          *)
(***************************************************************************)
ANO_INICIAL == 2021

\* ANOS_SIMULACION, cut to its first n years.
AnosPrefijo(n) == [k \in 1..n |-> ANO_INICIAL + k - 1]

\* The segments the model follows, out of SEGMENTOS_CLIENTES.
SegmentosModelo == {"A", "C+", "E"}

\* PESO_SEGMENTACION_CANAL.get(nombre), weights in hundredths, restricted to
\* SegmentosModelo; the empty dict stands for None (no entry for the name).
PESO_SEGMENTACION_CANAL(nombre) ==
    CASE nombre = "Supermercado" -> ("A" :> 40) @@ ("C+" :> 20) @@ ("E" :> 0)
      [] nombre = "Mayorista"    -> ("A" :> 15) @@ ("C+" :> 25) @@ ("E" :> 10)
      [] OTHER                   -> [c \in {} |-> 0]

\* Channel names a channel table may carry: a name of CANALES_MAESTRA whose
\* segment table has a zero weight, and a name of CANALES_RD, which has no
\* segment table.
NombresCanal == {"Supermercado", "Colmado (Tradicional)"}

\* Weights of table rows: zero or positive.
PesosFila == {0, 1}

\* Geography tables: no row, one row of weight zero, one row of positive weight.
TablasGeo == {<<>>} \cup {<<w>> : w \in PesosFila}

FilasCanal == [Nombre_Canal : NombresCanal, Peso_Mercado_Normalizado : PesosFila]

\* Channel tables: the rows carry distinct names (the keys of CANALES_RD).
TablasCanal ==
    {t \in UNION {[1..n -> FilasCanal] : n \in 0..Cardinality(NombresCanal)} :
        \A a, b \in 1..Len(t) : a # b => t[a].Nombre_Canal # t[b].Nombre_Canal}

\* Well-formed tables as the pipeline hands them over: one province of positive
\* weight, one channel of CANALES_RD of positive weight.
TablaGeoBase == <<1>>

TablaCanalBase == <<[Nombre_Canal |-> "Colmado (Tradicional)", Peso_Mercado_Normalizado |-> 1]>>

\* Lines 2516-2538: the sampling weights; a table whose weights sum to zero
\* gets uniform weights (np.ones_like(pesos) / len(pesos)).
PesosMuestreo(pesos) ==
    IF SumaSeq(pesos) > 0 THEN pesos ELSE [k \in 1..Len(pesos) |-> 1]

\* rng.choice(a, p=pesos): the positions that can be drawn.
Sorteables(pesos) == {k \in 1..Len(pesos) : PesosMuestreo(pesos)[k] > 0}

PesosCanal == [k \in 1..Len(df_canal) |-> df_canal[k].Peso_Mercado_Normalizado]

Activos(cs) == {k \in 1..Len(cs) : cs[k].Activo}

\* The mask without the condition on Activo.
CandidatosSinActivo(cs, ano) == {k \in 1..Len(cs) : cs[k].Ano_Creacion < ano}

\* Line 2559: candidatos_mask = (Ano_Creacion < ano) & Activo
Candidatos(cs, ano) == {k \in 1..Len(cs) : cs[k].Ano_Creacion < ano /\ cs[k].Activo}

\* datetime.date and the polars Date column: a date is [ano, mes, dia]; the
\* column stores it as the number of days since 1970-01-01.
EsBisiesto(a) == (a % 4 = 0 /\ a % 100 # 0) \/ a % 400 = 0

DiasDelAno(a) == IF EsBisiesto(a) THEN 366 ELSE 365

DiasDelMes(a, m) ==
    IF m = 2 THEN (IF EsBisiesto(a) THEN 29 ELSE 28)
    ELSE IF m \in {4, 6, 9, 11} THEN 30 ELSE 31

\* The leap years before year a.
BisiestosAntesDe(a) == ((a - 1) \div 4) - ((a - 1) \div 100) + ((a - 1) \div 400)

\* The days from 1970-01-01 up to the first day of year a.
DiasAntesDelAno(a) == 365 * (a - 1970) + BisiestosAntesDe(a) - BisiestosAntesDe(1970)

\* The days of a common year before the first day of each month.
DiasAcumulados == <<0, 31, 59, 90, 120, 151, 181, 212, 243, 273, 304, 334>>

\* The days of year a before the first day of month m.
DiasAntesDelMes(a, m) == DiasAcumulados[m] + (IF m > 2 /\ EsBisiesto(a) THEN 1 ELSE 0)

\* date -> days since the epoch (building the Date column)
DiasDeFecha(f) == DiasAntesDelAno(f.ano) + DiasAntesDelMes(f.ano, f.mes) + f.dia - 1

\* The day number of the first day of month m of year a.
PrimerDia(a, m) == DiasAntesDelAno(a) + DiasAntesDelMes(a, m)

\* days since the epoch -> date (to_dicts on the Date column): among the
\* months of the years day n can fall in, the one that holds it.
FechaDeDias(n) ==
    CHOOSE f \in UNION {{[ano |-> y, mes |-> k, dia |-> n - PrimerDia(y, k) + 1] : k \in 1..12} :
                           y \in (1970 + n \div 366)..(1970 + n \div 365)} :
        f.dia \in 1..DiasDelMes(f.ano, f.mes)

\* Lines 2557 and 2581: pl.DataFrame(clientes_activos_historicos,
\* schema=SCHEMAS["DimCliente"]) followed by to_dicts(): Fecha_Alta goes
\* through the Date column and back.
PorElMarco(c) == [c EXCEPT !.Fecha_Alta = FechaDeDias(DiasDeFecha(@))]

\* The creation date taken in the first year of the project, whatever the
\* simulated year.
FechaAltaAnoInicial(ano, mes, dia) == [ano |-> 2021, mes |-> mes, dia |-> dia]

\* Line 2621: fecha_alta = date(ano, random.randint(1, 12), random.randint(1, 28))
FechaAlta(ano, mes, dia) == [ano |-> ano, mes |-> mes, dia |-> dia]

\* The months and days the model draws for random.randint(1, 12) and
\* random.randint(1, 28): the first and the last date that can come out, one
\* of them for all the customers of a run.
MesDiaAlta == {<<1, 1>>, <<12, 28>>}

\* A churn that drops the churned rows instead of flagging them.
AplicarChurnBorrando(cs, idx) ==
    SelectSeq(cs, LAMBDA c : c.ID_Cliente \notin {cs[k].ID_Cliente : k \in idx})

\* A churn that rebuilds the whole Activo column from this year's decisions.
AplicarChurnReiniciando(cs, idx) ==
    [k \in 1..Len(cs) |-> [cs[k] EXCEPT !.Activo = (k \notin idx)]]

\* Lines 2565-2582: activo_np[idx_candidatos[churn_decisions]] = False
AplicarChurn(cs, idx) ==
    [k \in 1..Len(cs) |-> IF k \in idx THEN [PorElMarco(cs[k]) EXCEPT !.Activo = FALSE]
                          ELSE PorElMarco(cs[k])]

\* 3.1 Churn over the existing customers, from the second year on.
CliChurn ==
    /\ cli_pc = "churn"
    /\ cli_i <= Len(anos_simulacion)
    /\ IF cli_i > 1 /\ clientes_activos_historicos # <<>>
          /\ Candidatos(clientes_activos_historicos, anos_simulacion[cli_i]) # {}
       THEN \E idx \in SUBSET Candidatos(clientes_activos_historicos, anos_simulacion[cli_i]) :
               /\ idx_churn' = idx
               /\ clientes_activos_historicos' = AplicarChurn(clientes_activos_historicos, idx)
       ELSE /\ idx_churn' = {}
            /\ UNCHANGED clientes_activos_historicos
    /\ cli_pc' = "objetivo"
    /\ UNCHANGED <<df_geo, df_canal, anos_simulacion, num_clientes_por_ano, mes_dia_alta,
                   new_client_data, cli_i,
                   current_active_customers, num_nuevos, current_customer_id_counter>>

Max(a, b) == IF a >= b THEN a ELSE b

\* The shortfall counted against all rows, active or not.
NumNuevosPorFilas(target, cs) == Max(0, target - Len(cs))

\* The whole target created anew whenever there is a shortfall.
NumNuevosMetaCompleta(target, cs) ==
    IF target > Cardinality(Activos(cs)) THEN target ELSE 0

\* Lines 2587-2590: num_nuevos = max(0, target - current_active_customers)
NumNuevos(target, cs) == Max(0, target - Cardinality(Activos(cs)))

\* 3.2 and 3.3: the active customers and the new ones needed to reach the target.
CliObjetivo ==
    /\ cli_pc = "objetivo"
    /\ current_active_customers' = Cardinality(Activos(clientes_activos_historicos))
    /\ num_nuevos' = NumNuevos(num_clientes_por_ano[cli_i], clientes_activos_historicos)
    /\ new_client_data' = <<>>
    /\ cli_pc' = "crecer"
    /\ UNCHANGED <<df_geo, df_canal, anos_simulacion, num_clientes_por_ano, mes_dia_alta,
                   clientes_activos_historicos,
                   cli_i, idx_churn, current_customer_id_counter>>

\* A draw over the keys of the segment table that ignores their weights.
SegmentoClusterSinPesos(nombre) ==
    LET tabla == PESO_SEGMENTACION_CANAL(nombre)
    IN  IF DOMAIN tabla = {}
        THEN {<<"E", 4>>}
        ELSE {<<s, c>> \in (DOMAIN tabla) \X (1..4) :
                IF s \in {"A", "B"} THEN c \in {1, 2} ELSE c \in {3, 4}}

\* Lines 2604-2618: segment and cluster of a new customer of channel `nombre`:
\* the default ("E", 4) when the channel has no segment table, else a segment
\* of positive weight and a cluster of its tier.
SegmentoCluster(nombre) ==
    LET tabla == PESO_SEGMENTACION_CANAL(nombre)
    IN  IF DOMAIN tabla = {}
        THEN {<<"E", 4>>}
        ELSE {<<s, c>> \in (DOMAIN tabla) \X (1..4) :
                /\ tabla[s] > 0
                /\ IF s \in {"A", "B"} THEN c \in {1, 2} ELSE c \in {3, 4}}

\* One iteration of the growth loop (lines 2595-2639): rng.choice raises
\* ValueError on an empty geography or channel table.
CliNuevoCliente ==
    /\ cli_pc = "crecer"
    /\ Len(new_client_data) < num_nuevos
    /\ IF df_geo = <<>> \/ df_canal = <<>>
       THEN /\ cli_pc' = "ValueError"
            /\ current_customer_id_counter' = current_customer_id_counter + 1
            /\ UNCHANGED new_client_data
       ELSE /\ \E g \in Sorteables(df_geo), c \in Sorteables(PesosCanal) :
                 \E sc \in SegmentoCluster(df_canal[c].Nombre_Canal), md \in {mes_dia_alta} :
                    new_client_data' = Append(new_client_data,
                        [ID_Cliente       |-> current_customer_id_counter + 1,
                         ID_Provincia     |-> g,
                         ID_Canal         |-> c,
                         Segmento_Cliente |-> sc[1],
                         Cluster_ID       |-> sc[2],
                         Fecha_Alta       |-> FechaAlta(anos_simulacion[cli_i], md[1], md[2]),
                         Activo           |-> TRUE,
                         Ano_Creacion     |-> anos_simulacion[cli_i]])
            /\ current_customer_id_counter' = current_customer_id_counter + 1
            /\ cli_pc' = "crecer"
    /\ UNCHANGED <<df_geo, df_canal, anos_simulacion, num_clientes_por_ano, mes_dia_alta,
                   clientes_activos_historicos,
                   cli_i, idx_churn, current_active_customers, num_nuevos>>

\* Line 2641 and the loop header: the year's new records join the accumulated
\* list and the loop moves to the next year, or leaves after the last one.
CliFinAno ==
    /\ cli_pc = "crecer"
    /\ Len(new_client_data) = num_nuevos
    /\ clientes_activos_historicos' = clientes_activos_historicos \o new_client_data
    /\ new_client_data' = <<>>
    /\ cli_i' = cli_i + 1
    /\ cli_pc' = IF cli_i = Len(anos_simulacion) THEN "consolidar" ELSE "churn"
    /\ UNCHANGED <<df_geo, df_canal, anos_simulacion, num_clientes_por_ano, mes_dia_alta,
                   idx_churn,
                   current_active_customers, num_nuevos, current_customer_id_counter>>

\* Lines 2646-2662: the final table keeps every accumulated row.
CliConsolidar ==
    /\ cli_pc = "consolidar"
    /\ cli_pc' = "fin"
    /\ UNCHANGED <<df_geo, df_canal, anos_simulacion, num_clientes_por_ano, mes_dia_alta,
                   clientes_activos_historicos,
                   new_client_data, cli_i, idx_churn, current_active_customers,
                   num_nuevos, current_customer_id_counter>>

\* The values of the variables of a component that a specification does not
\* exercise.
IdleRuta ==
    /\ df_cedi = <<>>
    /\ df_geografia = <<>>
    /\ df_vehiculo = <<>>
    /\ df_vendedor = <<>>
    /\ rutas_data = <<>>
    /\ ultima_ruta = <<>>
    /\ distancia_lineal = 0
    /\ consecutivo_ruta = 0
    /\ ruta_i = 0
    /\ geos_objetivo = {}
    /\ vehiculos_disponibles = {}
    /\ vendedores_disponibles = {}
    /\ num_rutas_por_cedi = 0
    /\ ruta_k = 0
    /\ ruta_pc = "idle"

IdleEsq ==
    /\ df = <<>>
    /\ df_entrada = <<>>
    /\ schema = <<>>
    /\ valores_defecto = {}
    /\ esq_i = 0
    /\ parquet = <<>>
    /\ registro = <<>>
    /\ esq_pc = "idle"

IdleProc == procesos = <<>>

IdleSim ==
    /\ metas_por_ano = <<>>
    /\ churn_rate_anual = 0
    /\ corridas = <<>>

IdleTiempo ==
    /\ feriados_eager = <<>>
    /\ impacto_feriado_arr = <<>>
    /\ tmp_i = 0
    /\ tmp_accesos = {}
    /\ tmp_pc = "idle"

IdleDoble ==
    /\ salida_1 = <<>>
    /\ pasada_esq = 0

IdleOrq ==
    /\ DB_MEMORIA = {}
    /\ archivos = {}
    /\ orq_i = 0
    /\ orq_pc = "idle"
    /\ orq_error = ""

IdleNorm ==
    /\ lista = <<>>
    /\ suma_total = 0
    /\ norm_i = 1
    /\ norm_pc = "idle"

IdleCli ==
    /\ df_geo = <<>>
    /\ df_canal = <<>>
    /\ anos_simulacion = <<>>
    /\ num_clientes_por_ano = <<>>
    /\ mes_dia_alta = <<1, 1>>
    /\ clientes_activos_historicos = <<>>
    /\ new_client_data = <<>>
    /\ cli_i = 1
    /\ idx_churn = {}
    /\ current_active_customers = 0
    /\ num_nuevos = 0
    /\ current_customer_id_counter = 0
    /\ cli_pc = "idle"

\* The state at line 2550, before the first year.
CliInicio ==
    /\ clientes_activos_historicos = <<>>
    /\ new_client_data = <<>>
    /\ cli_i = 1
    /\ idx_churn = {}
    /\ current_active_customers = 0
    /\ num_nuevos = 0
    /\ current_customer_id_counter = 0
    /\ cli_pc = "churn"

\* The simulator over NumAnos years on well-formed tables.
InitCliente ==
    /\ IdleOrq
    /\ IdleRuta
    /\ IdleNorm
    /\ IdleEsq
    /\ IdleProc
    /\ IdleSim
    /\ IdleTiempo
    /\ IdleDoble
    /\ df_geo = TablaGeoBase
    /\ df_canal = TablaCanalBase
    /\ anos_simulacion = AnosPrefijo(NumAnos)
    /\ num_clientes_por_ano \in [1..NumAnos -> 0..MaxMeta]
    /\ mes_dia_alta \in MesDiaAlta
    /\ CliInicio

\* The simulator on every input table of the families above.
InitEntradas ==
    /\ IdleOrq
    /\ IdleRuta
    /\ IdleNorm
    /\ IdleEsq
    /\ IdleProc
    /\ IdleSim
    /\ IdleTiempo
    /\ IdleDoble
    /\ df_geo \in TablasGeo
    /\ df_canal \in TablasCanal
    /\ anos_simulacion = AnosPrefijo(NumAnosEntradas)
    /\ num_clientes_por_ano \in [1..NumAnosEntradas -> 0..MaxMetaEntradas]
    /\ mes_dia_alta \in MesDiaAlta
    /\ CliInicio

NextCliente ==
    \/ CliChurn /\ UNCHANGED <<varsNorm, varsOrq, varsRuta, varsEsq, varsProc, varsSim, varsTiempo, varsDoble>>
    \/ CliObjetivo /\ UNCHANGED <<varsNorm, varsOrq, varsRuta, varsEsq, varsProc, varsSim, varsTiempo, varsDoble>>
    \/ CliNuevoCliente /\ UNCHANGED <<varsNorm, varsOrq, varsRuta, varsEsq, varsProc, varsSim, varsTiempo, varsDoble>>
    \/ CliFinAno /\ UNCHANGED <<varsNorm, varsOrq, varsRuta, varsEsq, varsProc, varsSim, varsTiempo, varsDoble>>
    \/ CliConsolidar /\ UNCHANGED <<varsNorm, varsOrq, varsRuta, varsEsq, varsProc, varsSim, varsTiempo, varsDoble>>

SpecCliente == InitCliente /\ [][NextCliente]_vars

SpecEntradas == InitEntradas /\ [][NextCliente]_vars

InitNorm ==
    /\ IdleOrq
    /\ IdleRuta
    /\ IdleCli
    /\ IdleEsq
    /\ IdleProc
    /\ IdleSim
    /\ IdleTiempo
    /\ IdleDoble
    /\ lista \in ListasEntrada
    /\ suma_total = 0
    /\ norm_i = 1
    /\ norm_pc = "inicio"

NextNorm ==
    \/ NormSumar /\ UNCHANGED <<varsCli, varsOrq, varsRuta, varsEsq, varsProc, varsSim, varsTiempo, varsDoble>>
    \/ NormIterar /\ UNCHANGED <<varsCli, varsOrq, varsRuta, varsEsq, varsProc, varsSim, varsTiempo, varsDoble>>

SpecNorm == InitNorm /\ [][NextNorm]_vars

(***************************************************************************)
(* normalizar_pesos applied again to its own result: after the first call  *)
(* the normalised field is fed back as the weight field and the function   *)
(* is called a second time on the same list.                               *)
(***************************************************************************)
ListasConPeso == UNION {[1..n -> {[c \in {"Peso"} |-> w] : w \in 0..MaxPesoIdem}] : n \in 1..MaxItemsIdem}

\* The second call has been prepared: the items carry the weight they had
\* before the first call.
Realimentada == lista # <<>> /\ \A i \in 1..Len(lista) : "Peso_Original" \in DOMAIN lista[i]

\* Between the two calls: the caller keeps the original weight and passes the
\* normalised field as the weight column of the second call.
NormRealimentar ==
    /\ norm_pc = "retorno"
    /\ ~Realimentada
    /\ lista' = [i \in 1..Len(lista) |->
                    DictSet(DictSet(lista[i], "Peso_Original", lista[i]["Peso"]),
                            "Peso", lista[i]["Peso_Normalizado"])]
    /\ suma_total' = 0
    /\ norm_i' = 1
    /\ norm_pc' = "inicio"

InitIdem ==
    /\ IdleOrq
    /\ IdleRuta
    /\ IdleCli
    /\ IdleEsq
    /\ IdleProc
    /\ IdleSim
    /\ IdleTiempo
    /\ IdleDoble
    /\ lista \in ListasConPeso
    /\ suma_total = 0
    /\ norm_i = 1
    /\ norm_pc = "inicio"

NextIdem ==
    \/ NormSumar /\ UNCHANGED <<varsCli, varsOrq, varsRuta, varsEsq, varsProc, varsSim, varsTiempo, varsDoble>>
    \/ NormIterar /\ UNCHANGED <<varsCli, varsOrq, varsRuta, varsEsq, varsProc, varsSim, varsTiempo, varsDoble>>
    \/ NormRealimentar /\ UNCHANGED <<varsCli, varsOrq, varsRuta, varsEsq, varsProc, varsSim, varsTiempo, varsDoble>>

SpecIdem == InitIdem /\ [][NextIdem]_vars

(***************************************************************************)
(* normalizar_pesos on a list and on the same list with every weight       *)
(* multiplied by one factor: after the first call the caller keeps the     *)
(* result, scales the weight field and calls the function again.           *)
(***************************************************************************)
\* The second call has been prepared: the items carry the weight they had
\* before scaling and the result of the first call.
Escalada == lista # <<>> /\ \A i \in 1..Len(lista) : "Peso_Sin_Escalar" \in DOMAIN lista[i]

\* Between the two calls: every weight is multiplied by the same factor.
NormEscalar ==
    /\ norm_pc = "retorno"
    /\ ~Escalada
    /\ \E k \in 2..MaxEscala :
          lista' = [i \in 1..Len(lista) |->
                      DictSet(DictSet(DictSet(lista[i], "Peso_Sin_Escalar", lista[i]["Peso"]),
                                      "Peso_Normalizado_1", lista[i]["Peso_Normalizado"]),
                              "Peso", k * lista[i]["Peso"])]
    /\ suma_total' = 0
    /\ norm_i' = 1
    /\ norm_pc' = "inicio"

NextEscala ==
    \/ NormSumar /\ UNCHANGED <<varsCli, varsOrq, varsRuta, varsEsq, varsProc, varsSim, varsTiempo, varsDoble>>
    \/ NormIterar /\ UNCHANGED <<varsCli, varsOrq, varsRuta, varsEsq, varsProc, varsSim, varsTiempo, varsDoble>>
    \/ NormEscalar /\ UNCHANGED <<varsCli, varsOrq, varsRuta, varsEsq, varsProc, varsSim, varsTiempo, varsDoble>>

SpecEscala == InitIdem /\ [][NextEscala]_vars

(***************************************************************************)
(* The DB_MEMORIA generation sequence                                      *)
(***************************************************************************)
\* The statements DB_MEMORIA[tabla] = generador(DB_MEMORIA[arg], ...), in
\* program order, with the parquet file each generator writes.
Paso(tabla, args, archivo) == [tabla |-> tabla, args |-> args, archivo |-> archivo]

\* The sequence with the customer dimension moved behind vehicles and routes.
SecuenciaClienteAlFinal ==
    << Paso("DimTiempo", <<>>, "dim_tiempo"),
       Paso("DimGeografia", <<>>, "dim_geografia"),
       Paso("DimPlanta", <<>>, "dim_planta"),
       Paso("DimAlmacen", <<"DimPlanta">>, "dim_almacen"),
       Paso("DimDepartamento", <<>>, "dim_departamento"),
       Paso("DimPuesto", <<"DimDepartamento">>, "dim_puesto"),
       Paso("DimCanalDistribucion", <<>>, "dim_canal_distribucion"),
       Paso("DimCluster", <<>>, "dim_cluster"),
       Paso("DimPromocion", <<>>, "dim_promocion"),
       Paso("DimCEDI", <<"DimGeografia", "DimPlanta">>, "dim_cedi"),
       Paso("DimProducto", <<>>, "dim_producto"),
       Paso("DimEmpleado", <<"DimDepartamento", "DimPuesto", "DimCEDI", "DimGeografia">>,
            "dim_empleado"),
       Paso("DimVendedor", <<"DimEmpleado", "DimPuesto", "DimCEDI">>, "dim_vendedor"),
       Paso("DimVehiculo", <<"DimCEDI">>, "dim_vehiculo"),
       Paso("DimRuta", <<"DimCEDI", "DimGeografia", "DimVehiculo", "DimVendedor">>, "dim_ruta"),
       Paso("DimCliente", <<"DimGeografia", "DimCanalDistribucion", "DimCluster">>,
            "dim_cliente") >>

\* The sequence with the sales agents extracted before the employees exist.
SecuenciaVendedorAntesDeEmpleado ==
    << Paso("DimTiempo", <<>>, "dim_tiempo"),
       Paso("DimGeografia", <<>>, "dim_geografia"),
       Paso("DimPlanta", <<>>, "dim_planta"),
       Paso("DimAlmacen", <<"DimPlanta">>, "dim_almacen"),
       Paso("DimDepartamento", <<>>, "dim_departamento"),
       Paso("DimPuesto", <<"DimDepartamento">>, "dim_puesto"),
       Paso("DimCanalDistribucion", <<>>, "dim_canal_distribucion"),
       Paso("DimCluster", <<>>, "dim_cluster"),
       Paso("DimPromocion", <<>>, "dim_promocion"),
       Paso("DimCEDI", <<"DimGeografia", "DimPlanta">>, "dim_cedi"),
       Paso("DimProducto", <<>>, "dim_producto"),
       Paso("DimVendedor", <<"DimEmpleado", "DimPuesto", "DimCEDI">>, "dim_vendedor"),
       Paso("DimEmpleado", <<"DimDepartamento", "DimPuesto", "DimCEDI", "DimGeografia">>,
            "dim_empleado"),
       Paso("DimCliente", <<"DimGeografia", "DimCanalDistribucion", "DimCluster">>,
            "dim_cliente"),
       Paso("DimVehiculo", <<"DimCEDI">>, "dim_vehiculo"),
       Paso("DimRuta", <<"DimCEDI", "DimGeografia", "DimVehiculo", "DimVendedor">>, "dim_ruta") >>

SECUENCIA_GENERADORES ==
    << Paso("DimTiempo", <<>>, "dim_tiempo"),
       Paso("DimGeografia", <<>>, "dim_geografia"),
       Paso("DimPlanta", <<>>, "dim_planta"),
       Paso("DimAlmacen", <<"DimPlanta">>, "dim_almacen"),
       Paso("DimDepartamento", <<>>, "dim_departamento"),
       Paso("DimPuesto", <<"DimDepartamento">>, "dim_puesto"),
       Paso("DimCanalDistribucion", <<>>, "dim_canal_distribucion"),
       Paso("DimCluster", <<>>, "dim_cluster"),
       Paso("DimPromocion", <<>>, "dim_promocion"),
       Paso("DimCEDI", <<"DimGeografia", "DimPlanta">>, "dim_cedi"),
       Paso("DimProducto", <<>>, "dim_producto"),
       Paso("DimEmpleado", <<"DimDepartamento", "DimPuesto", "DimCEDI", "DimGeografia">>,
            "dim_empleado"),
       Paso("DimVendedor", <<"DimEmpleado", "DimPuesto", "DimCEDI">>, "dim_vendedor"),
       Paso("DimCliente", <<"DimGeografia", "DimCanalDistribucion", "DimCluster">>,
            "dim_cliente"),
       Paso("DimVehiculo", <<"DimCEDI">>, "dim_vehiculo"),
       Paso("DimRuta", <<"DimCEDI", "DimGeografia", "DimVehiculo", "DimVendedor">>, "dim_ruta") >>

PasoActual == SECUENCIA_GENERADORES[orq_i]

ArgsDe(paso) == {paso.args[k] : k \in 1..Len(paso.args)}

\* The argument expressions DB_MEMORIA["..."] of the call are evaluated before
\* the generator is entered; a key that is not in the registry raises KeyError.
OrqArgumentos ==
    /\ orq_pc = "argumentos"
    /\ orq_error = ""
    /\ IF ArgsDe(PasoActual) \subseteq DB_MEMORIA
       THEN orq_pc' = "construir" /\ orq_error' = orq_error
       ELSE orq_pc' = orq_pc /\ orq_error' = "KeyError"
    /\ UNCHANGED <<DB_MEMORIA, archivos, orq_i>>

\* The body of the generator collects its arguments and builds its data frame;
\* an exception raised there propagates and ends the run.
OrqConstruir ==
    /\ orq_pc = "construir"
    /\ orq_error = ""
    /\ \/ orq_pc' = "esquema" /\ orq_error' = orq_error
       \/ orq_pc' = orq_pc /\ orq_error' = "Exception"
    /\ UNCHANGED <<DB_MEMORIA, archivos, orq_i>>

\* asegurar_columnas and the cast to SCHEMAS[tabla].
OrqEsquema ==
    /\ orq_pc = "esquema"
    /\ orq_error = ""
    /\ \/ orq_pc' = "guardar" /\ orq_error' = orq_error
       \/ orq_pc' = orq_pc /\ orq_error' = "Exception"
    /\ UNCHANGED <<DB_MEMORIA, archivos, orq_i>>

\* guardar_parquet writes the file, or logs the error and re-raises it.
guardar_parquet ==
    /\ orq_pc = "guardar"
    /\ orq_error = ""
    /\ \/ /\ archivos' = archivos \cup {PasoActual.archivo}
          /\ orq_pc' = "registrar"
          /\ orq_error' = orq_error
       \/ /\ archivos' = archivos
          /\ orq_pc' = orq_pc
          /\ orq_error' = "Exception"
    /\ UNCHANGED <<DB_MEMORIA, orq_i>>

\* The generator returns pl.scan_parquet(file) and the assignment registers it.
OrqRegistrar ==
    /\ orq_pc = "registrar"
    /\ orq_error = ""
    /\ DB_MEMORIA' = DB_MEMORIA \cup {PasoActual.tabla}
    /\ orq_i' = orq_i + 1
    /\ orq_pc' = IF orq_i = Len(SECUENCIA_GENERADORES) THEN "fin" ELSE "argumentos"
    /\ UNCHANGED <<archivos, orq_error>>

InitOrq ==
    /\ IdleNorm
    /\ IdleCli
    /\ IdleRuta
    /\ IdleEsq
    /\ IdleProc
    /\ IdleSim
    /\ IdleTiempo
    /\ IdleDoble
    /\ DB_MEMORIA = {}
    /\ archivos = {}
    /\ orq_i = 1
    /\ orq_pc = "argumentos"
    /\ orq_error = ""

NextOrq ==
    \/ OrqArgumentos /\ UNCHANGED <<varsNorm, varsCli, varsRuta, varsEsq, varsProc, varsSim, varsTiempo, varsDoble>>
    \/ OrqConstruir /\ UNCHANGED <<varsNorm, varsCli, varsRuta, varsEsq, varsProc, varsSim, varsTiempo, varsDoble>>
    \/ OrqEsquema /\ UNCHANGED <<varsNorm, varsCli, varsRuta, varsEsq, varsProc, varsSim, varsTiempo, varsDoble>>
    \/ guardar_parquet /\ UNCHANGED <<varsNorm, varsCli, varsRuta, varsEsq, varsProc, varsSim, varsTiempo, varsDoble>>
    \/ OrqRegistrar /\ UNCHANGED <<varsNorm, varsCli, varsRuta, varsEsq, varsProc, varsSim, varsTiempo, varsDoble>>

SpecOrq == InitOrq /\ [][NextOrq]_vars

(***************************************************************************)
(* The generation sequence with the customer simulator run inside its      *)
(* step: the call at lines 3585-3589 enters generar_dim_cliente_masiva,    *)
(* which runs its loop over the years and returns before the assignment    *)
(* to DB_MEMORIA["DimCliente"] takes place.                                *)
(***************************************************************************)
EsPasoCliente == PasoActual.tabla = "DimCliente"

\* The simulator handing over as soon as it has started.
ClienteEnCurso == cli_pc # "idle"

\* Lines 2643-2662: the function reaches its return only after the loop
\* over ANOS_SIMULACION and the consolidation.
ClienteTerminado == cli_pc = "fin"

\* Lines 2516-2545: the arguments are collected and the accumulator starts
\* empty.
OrqEntrarCliente ==
    /\ orq_pc = "construir"
    /\ orq_error = ""
    /\ EsPasoCliente
    /\ cli_pc = "idle"
    /\ df_geo' = TablaGeoBase
    /\ df_canal' = TablaCanalBase
    /\ clientes_activos_historicos' = <<>>
    /\ new_client_data' = <<>>
    /\ cli_i' = 1
    /\ idx_churn' = {}
    /\ current_active_customers' = 0
    /\ num_nuevos' = 0
    /\ current_customer_id_counter' = 0
    /\ cli_pc' = "churn"
    /\ orq_pc' = "cliente"
    /\ UNCHANGED <<anos_simulacion, num_clientes_por_ano, mes_dia_alta, DB_MEMORIA, archivos, orq_i, orq_error>>

\* The body of generar_dim_cliente_masiva is over; its schema tail follows.
OrqSalirCliente ==
    /\ orq_pc = "cliente"
    /\ ClienteTerminado
    /\ orq_pc' = "esquema"
    /\ UNCHANGED <<varsCli, DB_MEMORIA, archivos, orq_i, orq_error>>

InitRegistro ==
    /\ IdleNorm
    /\ IdleRuta
    /\ IdleEsq
    /\ IdleProc
    /\ IdleSim
    /\ IdleTiempo
    /\ IdleDoble
    /\ DB_MEMORIA = {}
    /\ archivos = {}
    /\ orq_i = 1
    /\ orq_pc = "argumentos"
    /\ orq_error = ""
    /\ df_geo = <<>>
    /\ df_canal = <<>>
    /\ anos_simulacion = AnosPrefijo(NumAnos)
    /\ num_clientes_por_ano \in [1..NumAnos -> 0..MaxMeta]
    /\ mes_dia_alta \in MesDiaAlta
    /\ clientes_activos_historicos = <<>>
    /\ new_client_data = <<>>
    /\ cli_i = 1
    /\ idx_churn = {}
    /\ current_active_customers = 0
    /\ num_nuevos = 0
    /\ current_customer_id_counter = 0
    /\ cli_pc = "idle"

NextRegistro ==
    \/ OrqArgumentos /\ UNCHANGED varsCli /\ UNCHANGED <<varsNorm, varsRuta, varsEsq, varsProc, varsSim, varsTiempo, varsDoble>>
    \/ OrqConstruir /\ ~EsPasoCliente /\ UNCHANGED varsCli /\ UNCHANGED <<varsNorm, varsRuta, varsEsq, varsProc, varsSim, varsTiempo, varsDoble>>
    \/ OrqEntrarCliente /\ UNCHANGED <<varsNorm, varsRuta, varsEsq, varsProc, varsSim, varsTiempo, varsDoble>>
    \/ orq_pc = "cliente" /\ CliChurn /\ UNCHANGED varsOrq /\ UNCHANGED <<varsNorm, varsRuta, varsEsq, varsProc, varsSim, varsTiempo, varsDoble>>
    \/ orq_pc = "cliente" /\ CliObjetivo /\ UNCHANGED varsOrq /\ UNCHANGED <<varsNorm, varsRuta, varsEsq, varsProc, varsSim, varsTiempo, varsDoble>>
    \/ orq_pc = "cliente" /\ CliNuevoCliente /\ UNCHANGED varsOrq /\ UNCHANGED <<varsNorm, varsRuta, varsEsq, varsProc, varsSim, varsTiempo, varsDoble>>
    \/ orq_pc = "cliente" /\ CliFinAno /\ UNCHANGED varsOrq /\ UNCHANGED <<varsNorm, varsRuta, varsEsq, varsProc, varsSim, varsTiempo, varsDoble>>
    \/ orq_pc = "cliente" /\ CliConsolidar /\ UNCHANGED varsOrq /\ UNCHANGED <<varsNorm, varsRuta, varsEsq, varsProc, varsSim, varsTiempo, varsDoble>>
    \/ OrqSalirCliente /\ UNCHANGED <<varsNorm, varsRuta, varsEsq, varsProc, varsSim, varsTiempo, varsDoble>>
    \/ OrqEsquema /\ UNCHANGED varsCli /\ UNCHANGED <<varsNorm, varsRuta, varsEsq, varsProc, varsSim, varsTiempo, varsDoble>>
    \/ guardar_parquet /\ UNCHANGED varsCli /\ UNCHANGED <<varsNorm, varsRuta, varsEsq, varsProc, varsSim, varsTiempo, varsDoble>>
    \/ OrqRegistrar /\ UNCHANGED varsCli /\ UNCHANGED <<varsNorm, varsRuta, varsEsq, varsProc, varsSim, varsTiempo, varsDoble>>

SpecRegistro == InitRegistro /\ [][NextRegistro]_vars

(***************************************************************************)
(* generar_dim_ruta                                                        *)
(***************************************************************************)
\* Values of the input tables.  Row k of a table has identifier k.
RegionesModelo == {"Ozama", "Este"}

\* Rows of the master data of the centers (CEDI Occidental, CEDI La Romana,
\* CEDI Santiago), from which generar_dim_cedi builds the center table.
CEDIS_MAESTRO ==
    << [Nombre_Provincia |-> "Distrito Nacional", Region |-> "Ozama", Capacidad_Pallets |-> 15000],
       [Nombre_Provincia |-> "La Romana", Region |-> "Este", Capacidad_Pallets |-> 3000],
       [Nombre_Provincia |-> "Santiago", Region |-> "Cibao Norte", Capacidad_Pallets |-> 4000] >>

SinCapacidad == -1   \* Capacidad_Pallets is None

EstadosVehiculo == {"Operativo", "En Taller"}

EstadosVendedor == {"Activo", "Inactivo"}

TablaCedi ==
    [k \in 1..NumCedis |->
        [CEDI_ID |-> k,
         Region_Operacion |-> CEDIS_MAESTRO[k].Region,
         Capacidad_Pallets |-> CEDIS_MAESTRO[k].Capacidad_Pallets]]

TablasGeografia ==
    {t \in [1..MaxGeos -> [ID_Provincia : 1..MaxGeos, Region : RegionesModelo]] :
        \A k \in 1..MaxGeos : t[k].ID_Provincia = k}

\* generar_dim_vehiculo appends the fleet of each center in the order of the
\* center table, so the rows come grouped by CEDI_Asignado_ID.
TablasVehiculo ==
    {t \in [1..MaxVehiculos -> [ID_Vehiculo : 1..MaxVehiculos, CEDI_Asignado_ID : 1..NumCedis,
                                Estado_Vehiculo : EstadosVehiculo]] :
        /\ \A k \in 1..MaxVehiculos : t[k].ID_Vehiculo = k
        /\ \A k \in 1..(MaxVehiculos - 1) : t[k].CEDI_Asignado_ID <= t[k + 1].CEDI_Asignado_ID}

TablasVendedor ==
    {t \in [1..MaxVendedores -> [Vendedor_ID : 1..MaxVendedores, CEDI_Base_ID : 1..NumCedis,
                                 Estado_Vendedor : EstadosVendedor]] :
        \A k \in 1..MaxVendedores : t[k].Vendedor_ID = k}

\* Geodesic distance centre-destination in km, and the inflation factor
\* rng.uniform(1.3, 1.6) in hundredths, at the ends of its range.
DistanciasLineales == {3, 19, 115}

FactoresInflacion == {130, 160}

REGIONES_DENSAS == {"Ozama", "Cibao Central"}

Min(a, b) == IF a <= b THEN a ELSE b

\* df_geo.filter(Region == region_op); when empty, df_geo.sample(n = min(3, height)):
\* the possible values of geos_objetivo.
GeosObjetivo(region_op) ==
    LET propias == {g \in 1..Len(df_geografia) : df_geografia[g].Region = region_op}
    IN  IF propias # {}
        THEN {propias}
        ELSE {m \in SUBSET (1..Len(df_geografia)) :
                Cardinality(m) = Min(3, Len(df_geografia))}

\* The vehicle pool without the condition on the center.
VehiculosDisponiblesSinCedi(cedi_id) ==
    {v \in 1..Len(df_vehiculo) : df_vehiculo[v].Estado_Vehiculo = "Operativo"}

VehiculosDisponibles(cedi_id) ==
    {v \in 1..Len(df_vehiculo) :
        /\ df_vehiculo[v].CEDI_Asignado_ID = cedi_id
        /\ df_vehiculo[v].Estado_Vehiculo = "Operativo"}

VendedoresDisponibles(cedi_id) ==
    {a \in 1..Len(df_vendedor) :
        /\ df_vendedor[a].CEDI_Base_ID = cedi_id
        /\ df_vendedor[a].Estado_Vendedor = "Activo"}

\* Lines 3326-3341 without the floor of 10.
NumRutasSinPiso(cant_veh, capacidad) ==
    LET limite_capacidad == IF capacidad = SinCapacidad
                            THEN 10000
                            ELSE Max(capacidad \div 50, 10)
    IN  Min(cant_veh * 2, limite_capacidad)

\* Lines 3326-3341: min(2 x vehicles, capacity ceiling), raised to the floor of 10.
NumRutasPorCedi(cant_veh, capacidad) ==
    LET max_rutas_por_vehiculo == 2
        limite_capacidad == IF capacidad = SinCapacidad
                            THEN 10000
                            ELSE Max(capacidad \div 50, 10)
    IN  Max(Min(cant_veh * max_rutas_por_vehiculo, limite_capacidad), 10)

\* distancia_ruta in hundredths of km: max(5.0, distancia_lineal * factor).
DistanciaRuta(lineal, factor) == Max(500, lineal * factor)

\* Lines 3362-3369 with the bands of distance alone.
TipoRutaSoloDistancia(distancia_ruta, region_op) ==
    IF distancia_ruta < 2500 THEN "Urbana Densa"
    ELSE IF distancia_ruta < 5000 THEN "Urbana Estándar"
    ELSE IF distancia_ruta < 15000 THEN "Interurbana Regular"
    ELSE "Autopista"

\* Lines 3362-3369: tipo_ruta_geo, distances in hundredths of km.
TipoRutaGeografica(distancia_ruta, region_op) ==
    IF distancia_ruta < 2500 /\ region_op \in REGIONES_DENSAS THEN "Urbana Densa"
    ELSE IF distancia_ruta < 5000 THEN "Urbana Estándar"
    ELSE IF distancia_ruta < 15000 THEN "Interurbana Regular"
    ELSE "Autopista"

\* Head of the loop over df_cedi: the pools of the center are computed and the
\* center is skipped when it has no operative vehicle or no active agent.
RutaCedi ==
    /\ ruta_pc = "cedi"
    /\ LET row_cedi == df_cedi[ruta_i]
           veh == VehiculosDisponibles(row_cedi.CEDI_ID)
           ven == VendedoresDisponibles(row_cedi.CEDI_ID)
       IN  \E geos \in GeosObjetivo(row_cedi.Region_Operacion) :
             /\ geos_objetivo' = geos
             /\ vehiculos_disponibles' = veh
             /\ vendedores_disponibles' = ven
             /\ IF veh = {} \/ ven = {}
                THEN /\ ruta_i' = ruta_i + 1
                     /\ ruta_pc' = IF ruta_i = Len(df_cedi) THEN "marco" ELSE "cedi"
                     /\ UNCHANGED <<num_rutas_por_cedi, ruta_k>>
                ELSE /\ num_rutas_por_cedi' =
                            NumRutasPorCedi(Cardinality(veh), row_cedi.Capacidad_Pallets)
                     /\ ruta_k' = 0
                     /\ ruta_pc' = "rutas"
                     /\ UNCHANGED ruta_i
    /\ UNCHANGED <<df_cedi, df_geografia, df_vehiculo, df_vendedor, rutas_data, ultima_ruta,
                   distancia_lineal, consecutivo_ruta>>

\* One iteration of the loop over range(num_rutas_por_cedi).
RutaNueva ==
    /\ ruta_pc = "rutas"
    /\ ruta_k < num_rutas_por_cedi
    /\ IF geos_objetivo = {}
       THEN /\ ruta_pc' = "IndexError"
            /\ UNCHANGED <<rutas_data, ultima_ruta, distancia_lineal, consecutivo_ruta, ruta_k>>
       ELSE \E vehiculo \in vehiculos_disponibles, vendedor \in vendedores_disponibles,
               geo_dest \in geos_objetivo, lineal \in DistanciasLineales,
               factor \in FactoresInflacion :
              LET row_cedi == df_cedi[ruta_i]
                  distancia_ruta == DistanciaRuta(lineal, factor)
                  ruta == [ID_Ruta |-> consecutivo_ruta,
                           ID_CEDI_Origen |-> row_cedi.CEDI_ID,
                           ID_Provincia_Destino |-> df_geografia[geo_dest].ID_Provincia,
                           ID_Vehiculo_Asignado |-> df_vehiculo[vehiculo].ID_Vehiculo,
                           ID_Vendedor_Titular |-> df_vendedor[vendedor].Vendedor_ID,
                           Distancia_Ruta_KM |-> distancia_ruta,
                           Tipo_Ruta_Geografica |->
                               TipoRutaGeografica(distancia_ruta, row_cedi.Region_Operacion),
                           Estado_Ruta |-> "Activa"]
              IN  /\ rutas_data' = Append(rutas_data,
                                          [ID_Ruta |-> ruta.ID_Ruta,
                                           ID_CEDI_Origen |-> ruta.ID_CEDI_Origen])
                  /\ ultima_ruta' = ruta
                  /\ distancia_lineal' = lineal
                  /\ consecutivo_ruta' = consecutivo_ruta + 1
                  /\ ruta_k' = ruta_k + 1
                  /\ ruta_pc' = ruta_pc
    /\ UNCHANGED <<df_cedi, df_geografia, df_vehiculo, df_vendedor, ruta_i, geos_objetivo,
                   vehiculos_disponibles, vendedores_disponibles, num_rutas_por_cedi>>

\* The inner loop is exhausted: next center, or leave the loop over df_cedi.
RutaFinCedi ==
    /\ ruta_pc = "rutas"
    /\ ruta_k = num_rutas_por_cedi
    /\ ruta_i' = ruta_i + 1
    /\ ruta_pc' = IF ruta_i = Len(df_cedi) THEN "marco" ELSE "cedi"
    /\ UNCHANGED <<df_cedi, df_geografia, df_vehiculo, df_vendedor, rutas_data, ultima_ruta,
                   distancia_lineal, consecutivo_ruta, geos_objetivo, vehiculos_disponibles,
                   vendedores_disponibles, num_rutas_por_cedi, ruta_k>>

\* pl.DataFrame(rutas_data).with_columns(pl.col("Distancia_Ruta_KM")...): a
\* frame built from no rows has no columns, and the column lookup raises.
RutaMarco ==
    /\ ruta_pc = "marco"
    /\ ruta_pc' = IF rutas_data = <<>> THEN "ColumnNotFoundError" ELSE "fin"
    /\ UNCHANGED <<df_cedi, df_geografia, df_vehiculo, df_vendedor, rutas_data, ultima_ruta,
                   distancia_lineal, consecutivo_ruta, ruta_i, geos_objetivo, vehiculos_disponibles,
                   vendedores_disponibles, num_rutas_por_cedi, ruta_k>>

InitRuta ==
    /\ IdleNorm
    /\ IdleCli
    /\ IdleOrq
    /\ IdleEsq
    /\ IdleProc
    /\ IdleSim
    /\ IdleTiempo
    /\ IdleDoble
    /\ df_cedi = TablaCedi
    /\ df_geografia \in TablasGeografia
    /\ df_vehiculo \in TablasVehiculo
    /\ df_vendedor \in TablasVendedor
    /\ rutas_data = <<>>
    /\ ultima_ruta = <<>>
    /\ distancia_lineal = 0
    /\ consecutivo_ruta = 1
    /\ ruta_i = 1
    /\ geos_objetivo = {}
    /\ vehiculos_disponibles = {}
    /\ vendedores_disponibles = {}
    /\ num_rutas_por_cedi = 0
    /\ ruta_k = 0
    /\ ruta_pc = "cedi"

NextRuta ==
    \/ RutaCedi /\ UNCHANGED <<varsNorm, varsCli, varsOrq, varsEsq, varsProc, varsSim, varsTiempo, varsDoble>>
    \/ RutaNueva /\ UNCHANGED <<varsNorm, varsCli, varsOrq, varsEsq, varsProc, varsSim, varsTiempo, varsDoble>>
    \/ RutaFinCedi /\ UNCHANGED <<varsNorm, varsCli, varsOrq, varsEsq, varsProc, varsSim, varsTiempo, varsDoble>>
    \/ RutaMarco /\ UNCHANGED <<varsNorm, varsCli, varsOrq, varsEsq, varsProc, varsSim, varsTiempo, varsDoble>>

SpecRuta == InitRuta /\ [][NextRuta]_vars

(***************************************************************************)
(* generar_dim_ruta on one center with a larger fleet: the route count of  *)
(* lines 3326-3341 over fleets and capacities for which each of its three  *)
(* terms decides.                                                          *)
(***************************************************************************)
\* Capacidad_Pallets of the center: null, and values whose ceiling is below,
\* between and above twice the fleets of the model.
CapacidadesModelo == {SinCapacidad, 0, 600, 800, 15000}

\* A fleet of n vehicles based at center 1, the first op of them operative.
Flota(n, op) ==
    [k \in 1..n |-> [ID_Vehiculo |-> k, CEDI_Asignado_ID |-> 1,
                     Estado_Vehiculo |-> IF k <= op THEN "Operativo" ELSE "En Taller"]]

InitFlota ==
    /\ IdleNorm
    /\ IdleCli
    /\ IdleOrq
    /\ IdleEsq
    /\ IdleProc
    /\ IdleSim
    /\ IdleTiempo
    /\ IdleDoble
    /\ \E region \in RegionesModelo, capacidad \in CapacidadesModelo :
          df_cedi = <<[CEDI_ID |-> 1, Region_Operacion |-> region, Capacidad_Pallets |-> capacidad]>>
    /\ df_geografia = <<[ID_Provincia |-> 1, Region |-> "Ozama"]>>
    /\ \E op \in 0..MaxFlota : df_vehiculo = Flota(MaxFlota, op)
    /\ df_vendedor = <<[Vendedor_ID |-> 1, CEDI_Base_ID |-> 1, Estado_Vendedor |-> "Activo"]>>
    /\ rutas_data = <<>>
    /\ ultima_ruta = <<>>
    /\ distancia_lineal = 0
    /\ consecutivo_ruta = 1
    /\ ruta_i = 1
    /\ geos_objetivo = {}
    /\ vehiculos_disponibles = {}
    /\ vendedores_disponibles = {}
    /\ num_rutas_por_cedi = 0
    /\ ruta_k = 0
    /\ ruta_pc = "cedi"

SpecFlota == InitFlota /\ [][NextRuta]_vars

(***************************************************************************)
(* generar_dim_ruta on the tables of the pipeline: the center table is     *)
(* the one generar_dim_cedi (lines 2203-2278) builds from the geography    *)
(* table, and both functions read the same geography table.                *)
(***************************************************************************)
NombresProvinciaModelo == {"Distrito Nacional", "La Romana", "Azua"}

\* Geography tables as generar_dim_geografia leaves them: ID_Provincia is
\* the row index, every row has a name and a region.
TablasGeografiaConNombre ==
    {t \in [1..MaxGeos -> [ID_Provincia : 1..MaxGeos, Nombre_Provincia : NombresProvinciaModelo,
                           Region : RegionesModelo]] :
        \A k \in 1..MaxGeos : t[k].ID_Provincia = k}

SinProvincia == 0   \* mapa_provincia.get(nombre) is None

\* Lines 2212-2214 and the get at 2223 / 2242: dict(zip(names, ids)) keeps
\* the last row of a repeated name.
MapaProvincia(geo, nombre) ==
    LET filas == {k \in 1..Len(geo) : geo[k].Nombre_Provincia = nombre}
    IN  IF filas = {} THEN SinProvincia
        ELSE geo[CHOOSE k \in filas : \A j \in filas : j <= k].ID_Provincia

\* The region of a center copied from its master row.
RegionDelMaestro(geo, prov_id, cedi_txt) == cedi_txt.Region

\* Lines 2224 and 2251: df_geo.filter(ID_Provincia == prov_id)["Region"][0]
RegionDeProvincia(geo, prov_id, cedi_txt) ==
    geo[CHOOSE k \in 1..Len(geo) :
            /\ geo[k].ID_Provincia = prov_id
            /\ \A j \in 1..(k - 1) : geo[j].ID_Provincia # prov_id].Region

\* Lines 2216-2264: the principal center, tied to the province of the
\* plant, followed by the regional centers of CEDIS; a province name that
\* the geography table lacks falls back to its first row.
GenerarDimCedi(geo) ==
    LET prov_planta == IF MapaProvincia(geo, "Distrito Nacional") # SinProvincia
                       THEN MapaProvincia(geo, "Distrito Nacional")
                       ELSE geo[1].ID_Provincia
        principal == [CEDI_ID |-> 1,
                      ID_Provincia |-> prov_planta,
                      Region_Operacion |->
                          RegionDeProvincia(geo, prov_planta, [Region |-> "Ozama"]),
                      Capacidad_Pallets |-> 45000]
        regional(k) ==
            LET cedi_txt == CEDIS_MAESTRO[k]
                prov_id == IF MapaProvincia(geo, cedi_txt.Nombre_Provincia) # SinProvincia
                           THEN MapaProvincia(geo, cedi_txt.Nombre_Provincia)
                           ELSE geo[1].ID_Provincia
            IN  [CEDI_ID |-> k + 1,
                 ID_Provincia |-> prov_id,
                 Region_Operacion |-> RegionDeProvincia(geo, prov_id, cedi_txt),
                 Capacidad_Pallets |-> cedi_txt.Capacidad_Pallets]
    IN  <<principal>> \o [k \in 1..NumCedis |-> regional(k)]

\* One operative vehicle and one active agent based at each center.
InitTuberia ==
    /\ IdleNorm
    /\ IdleCli
    /\ IdleOrq
    /\ IdleEsq
    /\ IdleProc
    /\ IdleSim
    /\ IdleTiempo
    /\ IdleDoble
    /\ df_geografia \in TablasGeografiaConNombre
    /\ df_cedi = GenerarDimCedi(df_geografia)
    /\ df_vehiculo = [k \in 1..(NumCedis + 1) |->
                         [ID_Vehiculo |-> k, CEDI_Asignado_ID |-> k, Estado_Vehiculo |-> "Operativo"]]
    /\ df_vendedor = [k \in 1..(NumCedis + 1) |->
                         [Vendedor_ID |-> k, CEDI_Base_ID |-> k, Estado_Vendedor |-> "Activo"]]
    /\ rutas_data = <<>>
    /\ ultima_ruta = <<>>
    /\ distancia_lineal = 0
    /\ consecutivo_ruta = 1
    /\ ruta_i = 1
    /\ geos_objetivo = {}
    /\ vehiculos_disponibles = {}
    /\ vendedores_disponibles = {}
    /\ num_rutas_por_cedi = 0
    /\ ruta_k = 0
    /\ ruta_pc = "cedi"

SpecTuberia == InitTuberia /\ [][NextRuta]_vars

(***************************************************************************)
(* asegurar_columnas (lines 1756-1789) and the schema tail that every      *)
(* generator runs on the frame it built: asegurar_columnas, the strict     *)
(* cast to the schema, guardar_parquet and the registration of             *)
(* pl.scan_parquet(file).  A column of a frame is [nombre, dtype, valor];  *)
(* valor is "datos" for content that converts to any type, "sucio" for     *)
(* content whose conversion to another type fails, or the literal a        *)
(* default column was filled with.                                         *)
(***************************************************************************)
ColumnasModelo == {"Cliente_ID", "Nombre_Cliente", "Fecha_Alta"}

TiposModelo == {"Utf8", "Int32"}

ContenidosModelo == {"datos", "sucio"}

SecuenciasSinRepetir(S, n) ==
    {s \in UNION {[1..k -> S] : k \in 0..n} : \A i, j \in DOMAIN s : i # j => s[i] # s[j]}

\* The schemas: ordered (column, dtype) pairs, the empty schema included.
EsquemasModelo ==
    UNION {{[i \in DOMAIN ns |-> [col |-> ns[i], dtype |-> ts[i]]] : ts \in [DOMAIN ns -> TiposModelo]}
           : ns \in SecuenciasSinRepetir(ColumnasModelo, MaxColumnas)}

\* The frames a generator can hand over; a frame without columns has no rows.
TablasEntrada ==
    UNION {{[cols |-> [i \in DOMAIN ns |-> [nombre |-> ns[i], dtype |-> ts[i], valor |-> vs[i]]],
             filas |-> f] :
                ts \in [DOMAIN ns -> TiposModelo], vs \in [DOMAIN ns -> ContenidosModelo],
                f \in (IF Len(ns) = 0 THEN {0} ELSE 0..MaxFilas)}
           : ns \in SecuenciasSinRepetir(ColumnasModelo, MaxColumnas)}

\* df.columns
Columnas(t) == [i \in 1..Len(t.cols) |-> t.cols[i].nombre]

NombresDe(t) == {t.cols[i].nombre : i \in 1..Len(t.cols)}

\* df[col]
ColumnaDe(t, col) == t.cols[CHOOSE i \in 1..Len(t.cols) : t.cols[i].nombre = col]

\* df.schema
TiposDe(t) == [i \in 1..Len(t.cols) |-> [col |-> t.cols[i].nombre, dtype |-> t.cols[i].dtype]]

\* Lines 1763-1773 with every type given the same literal.
ValorPorDefectoUnico(dtype) == "0"

\* Lines 1763-1773: the literal of a missing column without explicit default;
\* a type outside the five branches keeps None.
ValorPorDefecto(dtype) ==
    IF dtype = "Utf8" THEN "''"
    ELSE IF dtype \in {"Int8", "Int16", "Int32", "Int64"} THEN "0"
    ELSE IF dtype \in {"Float32", "Float64"} THEN "0.0"
    ELSE IF dtype = "Date" THEN "1900-01-01"
    ELSE IF dtype = "Boolean" THEN "False"
    ELSE "None"

\* pl.col(col).cast(dtype) on the rows of the frame: only content that does
\* not convert makes it fail, and only when there is a row to convert.
CastFalla(t, c, dtype) == c.dtype # dtype /\ c.valor = "sucio" /\ t.filas > 0

\* df.with_columns(pl.lit(v, dtype=dtype).alias(col)) for a new column: the
\* literal is broadcast to the height of the frame; on a frame without
\* columns it is the only column and has one row.
ConColumnaLiteral(t, col, dtype, v) ==
    [cols |-> Append(t.cols, [nombre |-> col, dtype |-> dtype, valor |-> v]),
     filas |-> IF Len(t.cols) = 0 THEN 1 ELSE t.filas]

\* df.with_columns(pl.col(col).cast(dtype)): the column keeps its position.
ConColumnaCasteada(t, col, dtype) ==
    [t EXCEPT !.cols = [i \in 1..Len(t.cols) |->
        IF t.cols[i].nombre = col THEN [t.cols[i] EXCEPT !.dtype = dtype] ELSE t.cols[i]]]

\* Line 1787 keeping the order of the frame instead of the schema's.
SeleccionarOrdenTabla(t, sch) ==
    LET enEsquema(c) == \E k \in 1..Len(sch) : sch[k].col = c.nombre
        cols == SelectSeq(t.cols, enEsquema)
    IN  [cols |-> cols, filas |-> IF Len(cols) = 0 THEN 0 ELSE t.filas]

\* Line 1787 selecting the schema's columns in the reverse of the order the
\* frame holds them.
SeleccionarInvertida(t, sch) ==
    LET enEsquema(c) == \E k \in 1..Len(sch) : sch[k].col = c.nombre
        presentes == SelectSeq(t.cols, enEsquema)
        n == Len(presentes)
        cols == [k \in 1..n |-> presentes[n + 1 - k]]
    IN  [cols |-> cols, filas |-> IF n = 0 THEN 0 ELSE t.filas]

\* Line 1787: df.select([col for col in schema.keys() if col in df.columns]);
\* a selection of no column is a frame without rows.
Seleccionar(t, sch) ==
    LET presentes == SelectSeq(sch, LAMBDA e : e.col \in NombresDe(t))
        cols == [k \in 1..Len(presentes) |-> ColumnaDe(t, presentes[k].col)]
    IN  [cols |-> cols, filas |-> IF Len(cols) = 0 THEN 0 ELSE t.filas]

\* The exceptions a failing pl.col(col).cast(dtype) raises; all of them
\* derive from Exception.
ExcepcionesDeCast == {"InvalidOperationError", "ComputeError"}

\* A handler that lets every exception through.
NadaAtrapado(e) == FALSE

\* Line 1781: except Exception as e.
Atrapada(e) == e \in ExcepcionesDeCast

\* One iteration of the loop at line 1760.
AsegurarColumna ==
    /\ esq_pc = "columnas"
    /\ esq_i <= Len(schema)
    /\ LET col == schema[esq_i].col
           dtype == schema[esq_i].dtype
       IN  IF col \notin NombresDe(df)
           THEN /\ df' = ConColumnaLiteral(df, col, dtype,
                              IF col \in valores_defecto THEN "explicito"
                              ELSE ValorPorDefecto(dtype))
                /\ esq_pc' = esq_pc
           ELSE IF ColumnaDe(df, col).dtype = dtype
                THEN df' = df /\ esq_pc' = esq_pc
                ELSE IF ~CastFalla(df, ColumnaDe(df, col), dtype)
                     THEN df' = ConColumnaCasteada(df, col, dtype) /\ esq_pc' = esq_pc
                     ELSE \* lines 1781-1784: the failure is logged, the column stays
                          /\ df' = df
                          /\ esq_pc' = IF Atrapada("InvalidOperationError") THEN esq_pc
                                       ELSE "InvalidOperationError"
    /\ esq_i' = esq_i + 1
    /\ UNCHANGED <<df_entrada, schema, valores_defecto, parquet, registro>>

\* Lines 1786-1789: select in schema order and return.
AsegurarSeleccion ==
    /\ esq_pc = "columnas"
    /\ esq_i > Len(schema)
    /\ df' = Seleccionar(df, schema)
    /\ esq_pc' = "devuelto"
    /\ UNCHANGED <<df_entrada, schema, valores_defecto, esq_i, parquet, registro>>

\* df.cast(dict(schema)) (e.g. lines 1894, 2657, 3441): every column named
\* by the schema takes the schema's type.
CastEstricto(t, sch) ==
    [t EXCEPT !.cols = [i \in 1..Len(t.cols) |->
        IF \E k \in 1..Len(sch) : sch[k].col = t.cols[i].nombre
        THEN [t.cols[i] EXCEPT !.dtype =
                 (sch[CHOOSE k \in 1..Len(sch) : sch[k].col = t.cols[i].nombre]).dtype]
        ELSE t.cols[i]]]

\* A cast that accepts every content.
CastNuncaFalla(t, sch) == FALSE

\* The strict cast raises when a column cannot be converted.
CastEstrictoFalla(t, sch) ==
    \E i \in 1..Len(t.cols), k \in 1..Len(sch) :
        sch[k].col = t.cols[i].nombre /\ CastFalla(t, t.cols[i], sch[k].dtype)

\* df = df.cast(dict(schema)) after asegurar_columnas.
EsqCast ==
    /\ esq_pc = "devuelto"
    /\ IF CastEstrictoFalla(df, schema)
       THEN df' = df /\ esq_pc' = "InvalidOperationError"
       ELSE df' = CastEstricto(df, schema) /\ esq_pc' = "casteado"
    /\ UNCHANGED <<df_entrada, schema, valores_defecto, esq_i, parquet, registro>>

\* Lines 2918-2923: without any sales employee generar_dim_vendedor builds
\* pl.DataFrame(schema=SCHEMAS["DimVendedor"]) and goes straight to saving.
EsqTablaVacia ==
    /\ esq_pc = "columnas"
    /\ esq_i = 1
    /\ df_entrada.filas = 0
    /\ df' = [cols |-> [k \in 1..Len(schema) |->
                          [nombre |-> schema[k].col, dtype |-> schema[k].dtype, valor |-> "datos"]],
              filas |-> 0]
    /\ esq_pc' = "casteado"
    /\ UNCHANGED <<df_entrada, schema, valores_defecto, esq_i, parquet, registro>>

\* guardar_parquet (lines 129-137) on the frame of the generator: the file is
\* written, or the error is logged and raised again.
EsqGuardar ==
    /\ esq_pc = "casteado"
    /\ \/ parquet' = df /\ esq_pc' = "guardado"
       \/ parquet' = parquet /\ esq_pc' = "OSError"
    /\ UNCHANGED <<df, df_entrada, schema, valores_defecto, esq_i, registro>>

\* return pl.scan_parquet(file) and DB_MEMORIA[tabla] = ... (lines 3552-3596).
EsqRegistrar ==
    /\ esq_pc = "guardado"
    /\ registro' = parquet
    /\ esq_pc' = "registrado"
    /\ UNCHANGED <<df, df_entrada, schema, valores_defecto, esq_i, parquet>>

InitEsquema ==
    /\ IdleNorm
    /\ IdleCli
    /\ IdleOrq
    /\ IdleRuta
    /\ IdleProc
    /\ IdleSim
    /\ IdleTiempo
    /\ IdleDoble
    /\ df_entrada \in TablasEntrada
    /\ df = df_entrada
    /\ schema \in EsquemasModelo
    /\ valores_defecto \in {{}, {"Nombre_Cliente"}}
    /\ esq_i = 1
    /\ parquet = <<>>
    /\ registro = <<>>
    /\ esq_pc = "columnas"

NextEsquema ==
    \/ AsegurarColumna /\ UNCHANGED <<varsNorm, varsCli, varsOrq, varsRuta, varsProc, varsSim, varsTiempo, varsDoble>>
    \/ AsegurarSeleccion /\ UNCHANGED <<varsNorm, varsCli, varsOrq, varsRuta, varsProc, varsSim, varsTiempo, varsDoble>>
    \/ EsqCast /\ UNCHANGED <<varsNorm, varsCli, varsOrq, varsRuta, varsProc, varsSim, varsTiempo, varsDoble>>
    \/ EsqTablaVacia /\ UNCHANGED <<varsNorm, varsCli, varsOrq, varsRuta, varsProc, varsSim, varsTiempo, varsDoble>>
    \/ EsqGuardar /\ UNCHANGED <<varsNorm, varsCli, varsOrq, varsRuta, varsProc, varsSim, varsTiempo, varsDoble>>
    \/ EsqRegistrar /\ UNCHANGED <<varsNorm, varsCli, varsOrq, varsRuta, varsProc, varsSim, varsTiempo, varsDoble>>

SpecEsquema == InitEsquema /\ [][NextEsquema]_vars

(***************************************************************************)
(* The random sources along the generation sequence.  Two runs of the      *)
(* script are followed side by side.  A random source is a stream: a state *)
(* set by seeding and advanced by every draw; a table is recorded as the   *)
(* draws and the clock reading that went into it.                          *)
(***************************************************************************)
\* Line 84: the seed of random, np.random and Faker at process start.
SEED_VAL_INICIO == 420

\* Line 1336: the value of SEED_VAL when the generators run.
SEED_VAL == 42

\* Days a run can take place on (date.today()).
DiasModelo == 0..MaxDia

\* seed(x) and one draw of a stream with 64 states.
Sembrar(x) == x % 64

SiguienteEstado(e) == (5 * e + 3) % 64

\* date.today() in generar_dim_empleado (2748-2751, 2774-2776) and in
\* generar_dim_vehiculo (3183).
UsaHoy(tabla) == tabla \in {"DimEmpleado", "DimVehiculo"}

\* Draws from the global random module: 2092-2094, 2621-2627, 2740-2804,
\* 3028-3046, 3167, 3344-3415.
UsaRandom(tabla) ==
    tabla \in {"DimDepartamento", "DimCliente", "DimEmpleado", "DimVendedor", "DimVehiculo", "DimRuta"}

\* rng = np.random.default_rng(SEED_VAL) local to the generator: 1932, 2540,
\* 2683, 3157, 3269.
UsaRng(tabla) == tabla \in {"DimGeografia", "DimCliente", "DimEmpleado", "DimVehiculo", "DimRuta"}

\* Faker draws (the class-level random shared by every Faker instance):
\* 2626-2628, 2748-2767, 3406.
UsaFaker(tabla) == tabla \in {"DimCliente", "DimEmpleado", "DimRuta"}

\* Line 3270: random.seed(SEED_VAL) inside generar_dim_ruta.
Resiembra(tabla) == tabla = "DimRuta"

\* The state of a run after the module-level seeding (lines 84-89, 993-994),
\* before the first generator.
ProcesoInicial(hoy) ==
    [hoy |-> hoy,
     random_estado |-> Sembrar(SEED_VAL_INICIO),
     faker_estado |-> Sembrar(SEED_VAL_INICIO),
     i |-> 1,
     tablas |-> <<>>,
     resiembras |-> 0]

\* Run r executes the next generator of the sequence (lines 3552-3596) and
\* registers its table.
ProcGenerar(r) ==
    /\ procesos[r].i <= Len(SECUENCIA_GENERADORES)
    /\ LET p == procesos[r]
           tabla == SECUENCIA_GENERADORES[p.i].tabla
           semilla_random == IF Resiembra(tabla) THEN Sembrar(SEED_VAL) ELSE p.random_estado
           random_sig == IF UsaRandom(tabla) THEN SiguienteEstado(semilla_random) ELSE semilla_random
           faker_sig == IF UsaFaker(tabla) THEN SiguienteEstado(p.faker_estado) ELSE p.faker_estado
           contenido == [tabla |-> tabla,
                         random |-> IF UsaRandom(tabla) THEN random_sig ELSE -1,
                         rng |-> IF UsaRng(tabla) THEN SiguienteEstado(Sembrar(SEED_VAL)) ELSE -1,
                         faker |-> IF UsaFaker(tabla) THEN faker_sig ELSE -1,
                         hoy |-> IF UsaHoy(tabla) THEN p.hoy ELSE -1]
       IN  procesos' = [procesos EXCEPT ![r] =
               [p EXCEPT !.random_estado = random_sig,
                         !.faker_estado = faker_sig,
                         !.i = p.i + 1,
                         !.tablas = Append(p.tablas, contenido),
                         !.resiembras = IF Resiembra(tabla) THEN p.resiembras + 1 ELSE p.resiembras]]

InitProceso ==
    /\ IdleNorm
    /\ IdleCli
    /\ IdleOrq
    /\ IdleRuta
    /\ IdleEsq
    /\ IdleSim
    /\ IdleTiempo
    /\ IdleDoble
    /\ \E h1, h2 \in DiasModelo : procesos = <<ProcesoInicial(h1), ProcesoInicial(h2)>>

NextProceso ==
    \/ ProcGenerar(1) /\ UNCHANGED <<varsNorm, varsCli, varsOrq, varsRuta, varsEsq, varsSim, varsTiempo, varsDoble>>
    \/ ProcGenerar(2) /\ UNCHANGED <<varsNorm, varsCli, varsOrq, varsRuta, varsEsq, varsSim, varsTiempo, varsDoble>>

SpecProceso == InitProceso /\ [][NextProceso]_vars

(***************************************************************************)
(* The draws of generar_dim_cliente_masiva.  Two runs of the simulator     *)
(* with the same tables are followed side by side; each owns the generator *)
(* created at line 2540 and finds the global random module in whatever     *)
(* state the earlier generators left it.                                   *)
(***************************************************************************)
\* A generator seeded from the entropy of the system: a state of its own in
\* each run.
SemillaDeEntropia(r) == r

\* Line 2540: rng = np.random.default_rng(SEED_VAL)
SemillaRng(r) == SEED_VAL

\* A float of [0, 1) drawn from a stream state, in hundredths.
Uniforme(e) == (e * 100) \div 64

\* The states of n successive draws after state e.
RECURSIVE Sorteos(_, _)
Sorteos(e, n) == IF n = 0 THEN <<>> ELSE <<SiguienteEstado(e)>> \o Sorteos(SiguienteEstado(e), n - 1)

\* The state of a stream after n draws.
RECURSIVE Avanzar(_, _)
Avanzar(e, n) == IF n = 0 THEN e ELSE Avanzar(SiguienteEstado(e), n - 1)

\* np.where(candidatos_mask)[0]: the candidate positions in increasing order.
IdxCandidatos(cs, ano) ==
    LET S == Candidatos(cs, ano)
    IN  CHOOSE f \in [1..Cardinality(S) -> S] : \A a, b \in 1..Cardinality(S) : a < b => f[a] < f[b]

\* Lines 2563-2567: idx_candidatos[rng.random(size=num_candidatos) < CHURN_RATE_ANUAL]
IdxChurn(cs, ano, e, tasa) ==
    LET idx == IdxCandidatos(cs, ano)
        u == Sorteos(e, Len(idx))
    IN  {idx[j] : j \in {j \in 1..Len(idx) : Uniforme(u[j]) < tasa}}

\* Lines 2599-2618 and 2635-2636: the draws one new customer takes from rng:
\* geography, channel, segment and cluster when the channel drawn has a
\* segment table, latitude and longitude.
SorteosRngCliente(e) ==
    LET canal == Avanzar(e, 2)
    IN  IF canal % 2 = 0 THEN 6 ELSE 4

\* Lines 2595-2639: n new customers of year ano, from rng state e and random
\* state m; the month of Fecha_Alta comes from the global random module,
\* which gives three draws per customer (lines 2621 and 2627).
RECURSIVE NuevosClientes(_, _, _, _, _)
NuevosClientes(e, m, n, id, ano) ==
    IF n = 0 THEN [rng |-> e, random_estado |-> m, nuevos |-> <<>>]
    ELSE LET resto == NuevosClientes(Avanzar(e, SorteosRngCliente(e)), Avanzar(m, 3), n - 1, id + 1, ano)
         IN  [resto EXCEPT !.nuevos =
                 <<[ID_Cliente |-> id + 1,
                    Ano_Creacion |-> ano,
                    Activo |-> TRUE,
                    Mes_Alta |-> 1 + (SiguienteEstado(m) % 12)]>> \o resto.nuevos]

\* The state of a run at line 2550, before the first year.
CorridaInicial(r, m) ==
    [rng |-> Sembrar(SemillaRng(r)), random_estado |-> m, cs |-> <<>>, churn |-> <<>>, i |-> 1]

\* One iteration of the loop over ANOS_SIMULACION (lines 2550-2641) in run r:
\* churn over the eligible customers, then growth up to the year's target.
SimAno(r) ==
    /\ corridas[r].i <= Len(metas_por_ano)
    /\ LET c == corridas[r]
           ano == ANO_INICIAL + c.i - 1
           hay_churn == c.i > 1 /\ c.cs # <<>> /\ Candidatos(c.cs, ano) # {}
           idx == IF hay_churn THEN IdxChurn(c.cs, ano, c.rng, churn_rate_anual) ELSE {}
           rng_1 == IF hay_churn THEN Avanzar(c.rng, Cardinality(Candidatos(c.cs, ano))) ELSE c.rng
           cs_1 == AplicarChurn(c.cs, idx)
           crecer == NuevosClientes(rng_1, c.random_estado, NumNuevos(metas_por_ano[c.i], cs_1),
                                    Len(c.cs), ano)
       IN  corridas' = [corridas EXCEPT ![r] =
               [rng |-> crecer.rng,
                random_estado |-> crecer.random_estado,
                cs |-> cs_1 \o crecer.nuevos,
                churn |-> Append(c.churn, {c.cs[k].ID_Cliente : k \in idx}),
                i |-> c.i + 1]]
    /\ UNCHANGED <<metas_por_ano, churn_rate_anual>>

InitChurn ==
    /\ IdleNorm
    /\ IdleCli
    /\ IdleOrq
    /\ IdleRuta
    /\ IdleEsq
    /\ IdleProc
    /\ IdleTiempo
    /\ IdleDoble
    /\ metas_por_ano \in [1..NumAnos -> 1..MaxMeta + 1]
    /\ churn_rate_anual \in {5, 50}
    /\ \E m1, m2 \in 0..MaxEstadoRandom : corridas = <<CorridaInicial(1, m1), CorridaInicial(2, m2)>>

NextChurn ==
    \/ SimAno(1) /\ UNCHANGED <<varsNorm, varsCli, varsOrq, varsRuta, varsEsq, varsProc, varsTiempo, varsDoble>>
    \/ SimAno(2) /\ UNCHANGED <<varsNorm, varsCli, varsOrq, varsRuta, varsEsq, varsProc, varsTiempo, varsDoble>>

SpecChurn == InitChurn /\ [][NextChurn]_vars

(***************************************************************************)
(* The holiday-impact pass of generar_dim_tiempo (lines 1866-1881).        *)
(* Positions are counted from 0 as in the code; multipliers are in         *)
(* thousandths.                                                            *)
(***************************************************************************)
\* Lines 1289-1294.
IMPACTO_FERIADO ==
    [dia_antes |-> 1100, dia_feriado |-> 600, dia_despues |-> 900, sin_impacto |-> 1000]

\* The calendars: any day of the range may be a holiday.
CalendariosModelo == [1..NumDias -> BOOLEAN]

\* np.ones(len(fechas_eager))
Unos(n) == [k \in 1..n |-> 1000]

\* A numpy index: a negative one counts from the end, one outside the array
\* raises IndexError.
Envolver(k, n) == IF k < 0 THEN k + n ELSE k

FueraDeRango(k, n) == k >= n \/ k < 0 - n

\* An update that overwrites the multiplier.
Asignar(v, f) == f

\* arr[k] *= f
Multiplicar(v, f) == (v * f) \div 1000

EnPosicion(arr, k, f) ==
    [arr EXCEPT ![Envolver(k, Len(arr)) + 1] = Multiplicar(@, f)]

\* A pass that looks at the previous position of every day.
TienePrevioSiempre(i) == TRUE

\* Line 1874: i > 0
TienePrevio(i) == i > 0

\* Line 1876: i < len(fechas_eager) - 1
TieneSiguiente(i, n) == i < n - 1

\* The indices day i makes the pass touch (lines 1871-1877).
Accesos(F, i) ==
    {i} \cup (IF F[i + 1]
              THEN (IF TienePrevio(i) THEN {i - 1} ELSE {})
                   \cup (IF TieneSiguiente(i, Len(F)) THEN {i + 1} ELSE {})
              ELSE {})

\* The body of the loop for day i (lines 1872-1877): a holiday takes
\* dia_feriado, and its neighbours that are not holidays take dia_antes and
\* dia_despues.
Dia(F, arr, i) ==
    IF ~F[i + 1] THEN arr
    ELSE LET n == Len(F)
             a1 == EnPosicion(arr, i, IMPACTO_FERIADO.dia_feriado)
             a2 == IF TienePrevio(i) /\ ~F[Envolver(i - 1, n) + 1]
                   THEN EnPosicion(a1, i - 1, IMPACTO_FERIADO.dia_antes)
                   ELSE a1
         IN  IF TieneSiguiente(i, n) /\ ~F[Envolver(i + 1, n) + 1]
             THEN EnPosicion(a2, i + 1, IMPACTO_FERIADO.dia_despues)
             ELSE a2

\* The loop body applied to the days in the order given.
RECURSIVE Pasada(_, _, _)
Pasada(F, arr, orden) ==
    IF orden = <<>> THEN arr ELSE Pasada(F, Dia(F, arr, Head(orden)), Tail(orden))

\* One iteration of the loop at line 1871.
TiempoDia ==
    /\ tmp_pc = "bucle"
    /\ tmp_i < Len(feriados_eager)
    /\ tmp_accesos' = tmp_accesos \cup Accesos(feriados_eager, tmp_i)
    /\ IF \E k \in Accesos(feriados_eager, tmp_i) : FueraDeRango(k, Len(feriados_eager))
       THEN /\ tmp_pc' = "IndexError"
            /\ UNCHANGED <<impacto_feriado_arr, tmp_i>>
       ELSE /\ impacto_feriado_arr' = Dia(feriados_eager, impacto_feriado_arr, tmp_i)
            /\ tmp_i' = tmp_i + 1
            /\ tmp_pc' = IF tmp_i + 1 = Len(feriados_eager) THEN "columna" ELSE "bucle"
    /\ UNCHANGED feriados_eager

\* Lines 1879-1881: the array becomes the column Factor_Impacto_Feriado.
TiempoColumna ==
    /\ tmp_pc = "columna"
    /\ tmp_pc' = "fin"
    /\ UNCHANGED <<feriados_eager, impacto_feriado_arr, tmp_i, tmp_accesos>>

InitTiempo ==
    /\ IdleNorm
    /\ IdleCli
    /\ IdleOrq
    /\ IdleRuta
    /\ IdleEsq
    /\ IdleProc
    /\ IdleSim
    /\ IdleDoble
    /\ feriados_eager \in CalendariosModelo
    /\ impacto_feriado_arr = Unos(NumDias)
    /\ tmp_i = 0
    /\ tmp_accesos = {}
    /\ tmp_pc = "bucle"

NextTiempo ==
    \/ TiempoDia /\ UNCHANGED <<varsNorm, varsCli, varsOrq, varsRuta, varsEsq, varsProc, varsSim, varsDoble>>
    \/ TiempoColumna /\ UNCHANGED <<varsNorm, varsCli, varsOrq, varsRuta, varsEsq, varsProc, varsSim, varsDoble>>

SpecTiempo == InitTiempo /\ [][NextTiempo]_vars



\* The normalised weights written so far, in millionths.
SumaNormalizados(l) ==
    SumaSeq([i \in 1..Len(l) |-> DictGet(l[i], "Peso_Normalizado", 0)])

(***************************************************************************)
(* C9 (as stated): after a completed normalisation of a list whose total   *)
(* is greater than zero the normalised weights sum to 1.0 within 1e-6,     *)
(* whatever the number of items.                                           *)
(***************************************************************************)
C9_SumaDentroDe1e6 ==
    norm_pc = "retorno" => Abs(SumaNormalizados(lista) - MILLON) <= 1

(***************************************************************************)
(* C9 (amended): after a completed normalisation of n items the            *)
(* normalised weights sum to 1.0 within n * 0.5e-6: each item is rounded   *)
(* to six decimals and contributes at most half a millionth of error.      *)
(***************************************************************************)
C9_SumaDentroDeMedioPorItem ==
    norm_pc = "retorno" =>
        /\ suma_total > 0
        /\ \A i \in 1..Len(lista) : "Peso_Normalizado" \in DOMAIN lista[i]
        /\ 2 * Abs(SumaNormalizados(lista) - MILLON) <= Len(lista)

\* A completed normalisation whose sum is off by more than one millionth.
C9_Witness ==
    /\ norm_pc = "retorno"
    /\ Len(lista) >= 5
    /\ Abs(SumaNormalizados(lista) - MILLON) = 2

(***************************************************************************)
(* C10: when the total of the weights is zero (the empty list included),   *)
(* normalizar_pesos raises before annotating anything: the step out of the *)
(* start leads to the ValueError with the list exactly as it was, and a    *)
(* raised ValueError never changes the list afterwards.                    *)
(***************************************************************************)
C10_CeroFallaSinAnotar ==
    [][ /\ (norm_pc = "inicio" /\ SumaPesos(lista) = 0)
            => (norm_pc' = "ValueError" /\ lista' = lista)
        /\ (norm_pc = "ValueError") => (norm_pc' = "ValueError" /\ lista' = lista)
        /\ (norm_pc' = "ValueError") => SumaPesos(lista') = 0
      ]_vars

\* The ValueError raised on a non-empty list of zero weights, nothing annotated.
C10_Witness ==
    /\ norm_pc = "ValueError"
    /\ Len(lista) >= 2
    /\ \A i \in 1..Len(lista) : "Peso_Normalizado" \notin DOMAIN lista[i]

(***************************************************************************)
(* Claims about generar_dim_cliente_masiva                                 *)
(***************************************************************************)
\* A year's churn and growth are both done: the loop stands at the head of the
\* next year, or has left after the last one.
AnoCompletado == cli_pc \in {"churn", "consolidar", "fin"} /\ cli_i > 1

CreadosEn(cs, ano) == {k \in 1..Len(cs) : cs[k].Ano_Creacion = ano}

IdsDe(cs) == {cs[k].ID_Cliente : k \in 1..Len(cs)}

(***************************************************************************)
(* C1: for every simulated year, once its churn step and its growth step   *)
(* have completed, the number of records with Activo = TRUE is at least    *)
(* that year's target NUM_CLIENTES_POR_ANO[y].                             *)
(***************************************************************************)
C1_ActivosAlcanzanMeta ==
    AnoCompletado =>
        Cardinality(Activos(clientes_activos_historicos))
            >= num_clientes_por_ano[cli_i - 1]

\* The second year completed after a churn that growth had to compensate.
C1_Witness ==
    /\ cli_pc = "churn"
    /\ cli_i = 3
    /\ idx_churn # {}
    /\ num_nuevos > 0
    /\ Cardinality(Activos(clientes_activos_historicos)) = num_clientes_por_ano[2]

(***************************************************************************)
(* C2: no customer record is ever removed: every step keeps every          *)
(* ID_Cliente and never lowers the row count, and the final table holds    *)
(* every customer ever created (ids 1..counter), active or not.            *)
(***************************************************************************)
C2_NingunClienteEliminado ==
    [][ /\ IdsDe(clientes_activos_historicos) \subseteq IdsDe(clientes_activos_historicos')
        /\ Len(clientes_activos_historicos) <= Len(clientes_activos_historicos')
        /\ cli_pc' = "fin" =>
              /\ IdsDe(clientes_activos_historicos') = 1..current_customer_id_counter'
              /\ Len(clientes_activos_historicos') = current_customer_id_counter'
      ]_vars

\* A final table that still holds a churned customer.
C2_Witness ==
    /\ cli_pc = "fin"
    /\ Len(clientes_activos_historicos) >= 3
    /\ \E k \in 1..Len(clientes_activos_historicos) : ~clientes_activos_historicos[k].Activo

(***************************************************************************)
(* C4: in each year, after the churn step, exactly                         *)
(* max(0, target - active) records are appended, active being the number   *)
(* of records with Activo = TRUE at that moment; when target <= active no  *)
(* record is appended in that year.                                        *)
(***************************************************************************)
C4_NuevosIgualAlDeficit ==
    /\ cli_pc = "crecer" =>
          /\ current_active_customers = Cardinality(Activos(clientes_activos_historicos))
          /\ num_nuevos = Max(0, num_clientes_por_ano[cli_i] - current_active_customers)
          /\ Len(new_client_data) <= num_nuevos
    /\ AnoCompletado =>
          /\ Cardinality(CreadosEn(clientes_activos_historicos, anos_simulacion[cli_i - 1]))
                = Max(0, num_clientes_por_ano[cli_i - 1] - current_active_customers)
          /\ num_clientes_por_ano[cli_i - 1] <= current_active_customers =>
                CreadosEn(clientes_activos_historicos, anos_simulacion[cli_i - 1]) = {}

\* A year with churn whose target was still met: nothing was appended.
C4_Witness ==
    /\ cli_pc = "churn"
    /\ cli_i = 3
    /\ idx_churn # {}
    /\ current_active_customers >= 1
    /\ num_clientes_por_ano[2] <= current_active_customers
    /\ CreadosEn(clientes_activos_historicos, anos_simulacion[2]) = {}

(***************************************************************************)
(* C5: the churn step deactivates nobody in the first year; in a later     *)
(* year it flips Activo to FALSE only for customers that were active at    *)
(* the start of the year and were created in an earlier year, and changes  *)
(* nothing else; every subset of the eligible customers can be the one     *)
(* churned (no exact count is enforced).                                   *)
(***************************************************************************)
C5_ChurnSoloElegibles ==
    [][ (cli_pc = "churn" /\ cli_pc' = "objetivo") =>
          LET cs   == clientes_activos_historicos
              eleg == {k \in 1..Len(cs) :
                          cs[k].Activo /\ cs[k].Ano_Creacion < anos_simulacion[cli_i]}
          IN  /\ idx_churn' \subseteq eleg
              /\ cli_i = 1 => idx_churn' = {}
              /\ clientes_activos_historicos' =
                    [k \in 1..Len(cs) |->
                        IF k \in idx_churn' THEN [cs[k] EXCEPT !.Activo = FALSE] ELSE cs[k]]
              /\ \A S \in SUBSET eleg : ENABLED (CliChurn /\ idx_churn' = S)
      ]_vars

\* A churn step that deactivated some eligible customers and spared others.
C5_Witness ==
    /\ cli_pc = "objetivo"
    /\ cli_i > 1
    /\ idx_churn # {}
    /\ \E k \in 1..Len(clientes_activos_historicos) :
          /\ clientes_activos_historicos[k].Activo
          /\ clientes_activos_historicos[k].Ano_Creacion < anos_simulacion[cli_i]

(***************************************************************************)
(* C6 (as stated): when the weighted-sampling inputs are empty or          *)
(* malformed (no geography or channel rows, weights that sum to zero, a    *)
(* sampled channel without a segment-weight table) the simulator fails     *)
(* fast: no customer is ever produced from such inputs.                    *)
(***************************************************************************)
TieneTabla(nombre) == DOMAIN PESO_SEGMENTACION_CANAL(nombre) # {}

ClientesProducidos == clientes_activos_historicos \o new_client_data

C6_EntradasMalformadasFallan ==
    \A k \in 1..Len(ClientesProducidos) :
        /\ SumaSeq(df_geo) > 0
        /\ SumaSeq(PesosCanal) > 0
        /\ TieneTabla(df_canal[ClientesProducidos[k].ID_Canal].Nombre_Canal)

(***************************************************************************)
(* C6 (what the code does instead): the simulator fails with an error only *)
(* when the geography or the channel table has no rows and a year requires *)
(* growth, and then no customer is produced; weights that sum to zero are  *)
(* silently replaced by uniform weights, and a customer whose sampled      *)
(* channel has no segment-weight table silently gets the default segment   *)
(* "E" and cluster 4; a segment drawn from a table always has a positive   *)
(* weight in it.                                                           *)
(***************************************************************************)
C6_FallaSoloSinFilas ==
    /\ (df_geo = <<>> \/ df_canal = <<>>) =>
          /\ ClientesProducidos = <<>>
          /\ cli_pc \in {"consolidar", "fin"} =>
                \A y \in 1..Len(anos_simulacion) : num_clientes_por_ano[y] = 0
          /\ (cli_pc = "crecer" /\ num_nuevos > 0) => ENABLED CliNuevoCliente
    /\ cli_pc = "ValueError" =>
          /\ df_geo = <<>> \/ df_canal = <<>>
          /\ num_nuevos > 0
    /\ \A k \in 1..Len(ClientesProducidos) :
          LET c     == ClientesProducidos[k]
              tabla == PESO_SEGMENTACION_CANAL(df_canal[c.ID_Canal].Nombre_Canal)
          IN  /\ c.ID_Provincia \in 1..Len(df_geo)
              /\ SumaSeq(df_geo) > 0 => df_geo[c.ID_Provincia] > 0
              /\ SumaSeq(PesosCanal) > 0 => PesosCanal[c.ID_Canal] > 0
              /\ IF DOMAIN tabla = {}
                 THEN c.Segmento_Cliente = "E" /\ c.Cluster_ID = 4
                 ELSE tabla[c.Segmento_Cliente] > 0

\* Customers produced from weights that sum to zero, one of them with the
\* default segment of a channel without table.
C6_Witness ==
    /\ SumaSeq(df_geo) = 0
    /\ SumaSeq(PesosCanal) = 0
    /\ Len(df_canal) = 2
    /\ cli_pc = "fin"
    /\ \E k \in 1..Len(clientes_activos_historicos) :
          LET c == clientes_activos_historicos[k]
          IN  /\ ~TieneTabla(df_canal[c.ID_Canal].Nombre_Canal)
              /\ c.Segmento_Cliente = "E"
              /\ c.Cluster_ID = 4

(***************************************************************************)
(* Claims about the DB_MEMORIA generation sequence                         *)
(***************************************************************************)
\* The tables whose generator has been entered: the registered ones and the
\* one whose generator is running.
Invocados ==
    DB_MEMORIA \cup
        (IF orq_pc \in {"construir", "esquema", "guardar", "registrar"}
         THEN {PasoActual.tabla} ELSE {})

ArchivoDe(tabla) ==
    SECUENCIA_GENERADORES[CHOOSE k \in 1..Len(SECUENCIA_GENERADORES) :
                              SECUENCIA_GENERADORES[k].tabla = tabla].archivo

\* <<a, b>>: table a is registered before the generator of b is invoked.
PrecedenciasDeclaradas ==
    { <<"DimGeografia", "DimCEDI">>, <<"DimGeografia", "DimEmpleado">>,
      <<"DimGeografia", "DimCliente">>, <<"DimGeografia", "DimRuta">>,
      <<"DimDepartamento", "DimPuesto">>, <<"DimPuesto", "DimEmpleado">>,
      <<"DimEmpleado", "DimVendedor">>,
      <<"DimCEDI", "DimVehiculo">>, <<"DimCEDI", "DimRuta">>,
      <<"DimVehiculo", "DimRuta">>, <<"DimVendedor", "DimRuta">> }

(***************************************************************************)
(* C7: every generator is invoked only after each table it receives as an  *)
(* argument has been built, saved and inserted in DB_MEMORIA: no argument  *)
(* lookup ever fails, the running generator's arguments are registered,    *)
(* and the declared precedences hold (geography before centers, employees, *)
(* customers and routes; department before job title before employee       *)
(* before sales agent; centers before vehicles and routes; vehicles and    *)
(* sales agents before routes).                                            *)
(***************************************************************************)
C7_ArgumentosRegistrados ==
    /\ orq_error # "KeyError"
    /\ orq_pc \in {"construir", "esquema", "guardar", "registrar"} =>
          ArgsDe(PasoActual) \subseteq DB_MEMORIA
    /\ \A p \in PrecedenciasDeclaradas : p[2] \in Invocados => p[1] \in DB_MEMORIA
    /\ \A t \in DB_MEMORIA : ArchivoDe(t) \in archivos

\* The route generator running on its four registered argument tables.
C7_Witness ==
    /\ orq_pc = "construir"
    /\ PasoActual.tabla = "DimRuta"
    /\ {"DimCEDI", "DimGeografia", "DimVehiculo", "DimVendedor"} \subseteq DB_MEMORIA

(***************************************************************************)
(* C8 (as stated): the customer dimension is generated only after          *)
(* geography, calendar, department, job title, employee, sales agent,      *)
(* distribution centers, vehicles and routes have been generated.          *)
(***************************************************************************)
C8_ClienteDespuesDeTodo ==
    "DimCliente" \in Invocados =>
        {"DimGeografia", "DimTiempo", "DimDepartamento", "DimPuesto", "DimEmpleado",
         "DimVendedor", "DimCEDI", "DimVehiculo", "DimRuta"} \subseteq DB_MEMORIA

(***************************************************************************)
(* C8 (amended): the customer dimension is generated only after geography, *)
(* calendar, department, job title, employee, sales agent and distribution *)
(* centers have been generated; vehicles and routes are generated after    *)
(* the customer dimension, not before it.                                  *)
(***************************************************************************)
C8_ClienteAntesDeVehiculoYRuta ==
    /\ "DimCliente" \in Invocados =>
          {"DimGeografia", "DimTiempo", "DimDepartamento", "DimPuesto", "DimEmpleado",
           "DimVendedor", "DimCEDI"} \subseteq DB_MEMORIA
    /\ "DimVehiculo" \in Invocados => "DimCliente" \in DB_MEMORIA
    /\ "DimRuta" \in Invocados => "DimCliente" \in DB_MEMORIA

\* The customer generator running while vehicles and routes do not exist yet.
C8_Witness ==
    /\ orq_pc = "construir"
    /\ PasoActual.tabla = "DimCliente"
    /\ "DimVendedor" \in DB_MEMORIA
    /\ "DimCEDI" \in DB_MEMORIA
    /\ "DimVehiculo" \notin Invocados
    /\ "DimRuta" \notin Invocados

(***************************************************************************)
(* Claims about generar_dim_ruta                                           *)
(***************************************************************************)
FilasVehiculo(id) == {v \in 1..Len(df_vehiculo) : df_vehiculo[v].ID_Vehiculo = id}

FilasVendedor(id) == {a \in 1..Len(df_vendedor) : df_vendedor[a].Vendedor_ID = id}

(***************************************************************************)
(* C3: every route appended by generar_dim_ruta references exactly one     *)
(* vehicle and one agent, both based at the route's own origin center: the *)
(* vehicle's CEDI_Asignado_ID and the agent's CEDI_Base_ID equal the       *)
(* route's ID_CEDI_Origen, the vehicle is 'Operativo' and the agent is     *)
(* 'Activo'.  Rows are never modified once appended, so the property is    *)
(* stated on the row appended last and on the origin of every row.         *)
(***************************************************************************)
C3_RecursosDelCedi ==
    /\ ultima_ruta # <<>> =>
          /\ Cardinality(FilasVehiculo(ultima_ruta.ID_Vehiculo_Asignado)) = 1
          /\ Cardinality(FilasVendedor(ultima_ruta.ID_Vendedor_Titular)) = 1
          /\ \A v \in FilasVehiculo(ultima_ruta.ID_Vehiculo_Asignado) :
                /\ df_vehiculo[v].CEDI_Asignado_ID = ultima_ruta.ID_CEDI_Origen
                /\ df_vehiculo[v].Estado_Vehiculo = "Operativo"
          /\ \A a \in FilasVendedor(ultima_ruta.ID_Vendedor_Titular) :
                /\ df_vendedor[a].CEDI_Base_ID = ultima_ruta.ID_CEDI_Origen
                /\ df_vendedor[a].Estado_Vendedor = "Activo"
          /\ rutas_data[Len(rutas_data)].ID_Ruta = ultima_ruta.ID_Ruta
          /\ rutas_data[Len(rutas_data)].ID_CEDI_Origen = ultima_ruta.ID_CEDI_Origen
    /\ \A k \in 1..Len(rutas_data) :
          /\ \E v \in 1..Len(df_vehiculo) :
                /\ df_vehiculo[v].CEDI_Asignado_ID = rutas_data[k].ID_CEDI_Origen
                /\ df_vehiculo[v].Estado_Vehiculo = "Operativo"
          /\ \E a \in 1..Len(df_vendedor) :
                /\ df_vendedor[a].CEDI_Base_ID = rutas_data[k].ID_CEDI_Origen
                /\ df_vendedor[a].Estado_Vendedor = "Activo"

\* A route of the second center, generated while the first center has an
\* operative vehicle and an active agent of its own and the second center
\* also has a vehicle in the workshop.
C3_Witness ==
    /\ ultima_ruta # <<>>
    /\ ultima_ruta.ID_CEDI_Origen = 2
    /\ Len(rutas_data) > 10
    /\ \E v \in 1..Len(df_vehiculo) :
          df_vehiculo[v].CEDI_Asignado_ID = 2 /\ df_vehiculo[v].Estado_Vehiculo = "En Taller"
    /\ \E v \in 1..Len(df_vehiculo) :
          df_vehiculo[v].CEDI_Asignado_ID = 1 /\ df_vehiculo[v].Estado_Vehiculo = "Operativo"
    /\ \E a \in 1..Len(df_vendedor) :
          df_vendedor[a].CEDI_Base_ID = 1 /\ df_vendedor[a].Estado_Vendedor = "Activo"

(***************************************************************************)
(* asegurar_columnas                                                       *)
(***************************************************************************)
\* schema.keys()
ColumnasEsquema(sch) == [k \in 1..Len(sch) |-> sch[k].col]

\* C11 as stated: for any input table and any schema, the table returned by
\* asegurar_columnas has exactly the schema's columns in the schema's order
\* and as many rows as the input.
C11_ColumnasYFilasSiempre ==
    esq_pc = "devuelto" =>
        /\ Columnas(df) = ColumnasEsquema(schema)
        /\ df.filas = df_entrada.filas

\* C11, amended: the returned table always has exactly the schema's columns
\* in the schema's order; the number of rows is the input's when the schema
\* and the input both have at least one column.  With an empty schema the
\* result has no rows, and an input without columns comes back with one row
\* of defaults.
C11_ColumnasSiempreFilasConColumnas ==
    esq_pc = "devuelto" =>
        /\ Columnas(df) = ColumnasEsquema(schema)
        /\ df.filas = IF Len(schema) = 0 THEN 0
                      ELSE IF Len(df_entrada.cols) = 0 THEN 1
                      ELSE df_entrada.filas

\* A returned table for which a schema column was added and an input column
\* was dropped, with rows to keep.
C11_Witness ==
    /\ esq_pc = "devuelto"
    /\ df_entrada.filas > 0
    /\ Len(schema) = 2
    /\ \E k \in 1..Len(schema) : schema[k].col \notin NombresDe(df_entrada)
    /\ \E c \in NombresDe(df_entrada) : \A k \in 1..Len(schema) : schema[k].col # c

\* The frame the generator built has a schema column whose content does not
\* convert to the schema's type.
NoConvertible(t, sch) ==
    \E i \in 1..Len(t.cols), k \in 1..Len(sch) :
        sch[k].col = t.cols[i].nombre /\ CastFalla(t, t.cols[i], sch[k].dtype)

\* C12: every table that is persisted and every table behind a registry
\* entry has exactly the columns, column order and column types of its
\* schema; a frame that cannot be brought to the schema's types is never
\* persisted nor registered: its generator ends in the cast's exception.
C12_PersistidoIgualAlEsquema ==
    /\ parquet # <<>> => TiposDe(parquet) = schema
    /\ registro # <<>> => TiposDe(registro) = schema
    /\ NoConvertible(df_entrada, schema) =>
          /\ parquet = <<>>
          /\ registro = <<>>
          /\ esq_pc \in {"columnas", "devuelto", "InvalidOperationError"}

\* A registered table whose frame lacked a schema column and had another
\* schema column under a different type.
C12_Witness ==
    /\ esq_pc = "registrado"
    /\ registro # <<>>
    /\ \E k \in 1..Len(schema) : schema[k].col \notin NombresDe(df_entrada)
    /\ \E k \in 1..Len(schema) :
          /\ schema[k].col \in NombresDe(df_entrada)
          /\ ColumnaDe(df_entrada, schema[k].col).dtype # schema[k].dtype

(***************************************************************************)
(* Reproducibility of the generation sequence                              *)
(***************************************************************************)
ProcesoCompleto(r) == procesos[r].i > Len(SECUENCIA_GENERADORES)

\* C13 as stated: two complete runs with the same seed produce identical
\* tables, and no generator reseeds a random source during the run.
C13_CorridasIdenticasSinResiembra ==
    /\ (ProcesoCompleto(1) /\ ProcesoCompleto(2)) => procesos[1].tablas = procesos[2].tablas
    /\ \A r \in 1..2 : procesos[r].resiembras = 0

\* What the runs do share: two complete runs that take place on the same
\* day produce identical tables (the draw streams depend on the seeds only).
C13_IdenticasElMismoDia ==
    (ProcesoCompleto(1) /\ ProcesoCompleto(2) /\ procesos[1].hoy = procesos[2].hoy)
        => procesos[1].tablas = procesos[2].tablas

\* Two complete runs on different days.
C13_Witness ==
    /\ ProcesoCompleto(1)
    /\ ProcesoCompleto(2)
    /\ procesos[1].hoy # procesos[2].hoy

(***************************************************************************)
(* Reproducibility of the churn decisions                                  *)
(***************************************************************************)
\* The years both runs have gone through.
AnosComunes == 1..Min(Len(corridas[1].churn), Len(corridas[2].churn))

\* C14: two runs of the customer simulator with the same seed and the same
\* input tables churn the same customers in every year (the same set, hence
\* the same count), whatever state the global random module is in.
C14_MismoChurn ==
    corridas # <<>> =>
        \A k \in AnosComunes :
            /\ corridas[1].churn[k] = corridas[2].churn[k]
            /\ Cardinality(corridas[1].churn[k]) = Cardinality(corridas[2].churn[k])

\* Both runs are complete, they found the global random module in different
\* states and produced different tables, and in some year a customer was
\* churned while another eligible one was kept.
C14_Witness ==
    /\ corridas # <<>>
    /\ \A r \in 1..2 : corridas[r].i > Len(metas_por_ano)
    /\ corridas[1].cs # corridas[2].cs
    /\ \E k \in AnosComunes :
          /\ corridas[1].churn[k] # {}
          /\ \E j \in 1..Len(corridas[1].cs) :
                /\ corridas[1].cs[j].Ano_Creacion < ANO_INICIAL + k - 1
                /\ corridas[1].cs[j].Activo

(***************************************************************************)
(* generar_dim_ruta: route count per center                                *)
(***************************************************************************)
\* The loop over df_cedi has left center c behind.
CediTerminado(c) == ruta_pc \in {"marco", "fin", "ColumnNotFoundError"} \/ (ruta_pc \in {"cedi", "rutas"} /\ ruta_i > c)

\* Routes generated with origin c.
RutasDe(c) == Cardinality({k \in 1..Len(rutas_data) : rutas_data[k].ID_CEDI_Origen = df_cedi[c].CEDI_ID})

\* Operational vehicles based at center c.
OperativosDe(c) == Cardinality(VehiculosDisponibles(df_cedi[c].CEDI_ID))

\* The capacity-derived ceiling, as the claim states it.
TechoCapacidad(c) ==
    IF df_cedi[c].Capacidad_Pallets = SinCapacidad THEN 10000
    ELSE Max(df_cedi[c].Capacidad_Pallets \div 50, 10)

SinRecursos(c) ==
    \/ VehiculosDisponibles(df_cedi[c].CEDI_ID) = {}
    \/ VendedoresDisponibles(df_cedi[c].CEDI_ID) = {}

\* C16 as stated: a center without operational vehicle or without active
\* agent gets no route, every other center gets its routes, and the
\* generator completes without raising, whichever and however many centers
\* are skipped.
C16_OmitirNuncaEsFatal ==
    /\ \A c \in 1..Len(df_cedi) :
          CediTerminado(c) => IF SinRecursos(c) THEN RutasDe(c) = 0 ELSE RutasDe(c) > 0
    /\ ruta_pc # "ColumnNotFoundError"

\* What holds: skipped centers get no route and the others get theirs; the
\* generator raises exactly when every center was skipped.
C16_FatalSoloSiTodosOmitidos ==
    /\ \A c \in 1..Len(df_cedi) :
          CediTerminado(c) => IF SinRecursos(c) THEN RutasDe(c) = 0 ELSE RutasDe(c) > 0
    /\ ruta_pc = "ColumnNotFoundError" <=>
          (ruta_i > Len(df_cedi) /\ ruta_pc \notin {"marco"} /\ \A c \in 1..Len(df_cedi) : SinRecursos(c))

\* One center was skipped, the other has its routes and the run completed.
C16_Witness ==
    /\ ruta_pc = "fin"
    /\ \E c, d \in 1..Len(df_cedi) : SinRecursos(c) /\ ~SinRecursos(d) /\ RutasDe(d) > 0

(***************************************************************************)
(* generar_dim_ruta: geographic type of a route                            *)
(***************************************************************************)
\* Region_Operacion of the origin center of the route appended last.
RegionUltimaRuta ==
    df_cedi[CHOOSE c \in 1..Len(df_cedi) : df_cedi[c].CEDI_ID = ultima_ruta.ID_CEDI_Origen].Region_Operacion

\* C17: a route is 'Urbana Densa' exactly when its route distance (inflated
\* and floored) is below 25 km and the operating region of its origin center
\* is Ozama or Cibao Central; otherwise it is 'Urbana Estándar' below 50 km,
\* 'Interurbana Regular' from 50 km to below 150 km and 'Autopista' from
\* 150 km.  A route whose geodesic distance exceeds 25 km, or whose region
\* is not a dense one, is never 'Urbana Densa'.  Distances of routes are in
\* hundredths of km.
C17_TipoPorDistanciaYRegion ==
    ultima_ruta # <<>> =>
        LET d == ultima_ruta.Distancia_Ruta_KM
            tipo == ultima_ruta.Tipo_Ruta_Geografica
            densa == d < 2500 /\ RegionUltimaRuta \in {"Ozama", "Cibao Central"}
        IN  /\ tipo = "Urbana Densa" <=> densa
            /\ ~densa => /\ tipo = "Urbana Estándar" <=> d < 5000
                         /\ tipo = "Interurbana Regular" <=> (d >= 5000 /\ d < 15000)
                         /\ tipo = "Autopista" <=> d >= 15000
            /\ (distancia_lineal > 25 \/ RegionUltimaRuta \notin {"Ozama", "Cibao Central"})
                  => tipo # "Urbana Densa"

\* A route below 25 km from a center outside the dense regions, classified
\* 'Urbana Estándar'.
C17_Witness ==
    /\ ultima_ruta # <<>>
    /\ ultima_ruta.Distancia_Ruta_KM < 2500
    /\ RegionUltimaRuta = "Este"
    /\ ultima_ruta.Tipo_Ruta_Geografica = "Urbana Estándar"

(***************************************************************************)
(* generar_dim_tiempo: holiday impact                                      *)
(***************************************************************************)
\* Day d (from 1) of the range is a holiday; days outside the range are not.
EsFeriado(d) == d \in 1..Len(feriados_eager) /\ feriados_eager[d]

\* The visiting orders of the days of the range.
Ordenes ==
    {p \in [1..Len(feriados_eager) -> 0..(Len(feriados_eager) - 1)] :
        \A a, b \in 1..Len(feriados_eager) : a # b => p[a] # p[b]}

\* C18 as stated: the multiplier of each day is the product of every
\* adjustment that applies to it (0.6 for a holiday, 1.1 when the next day
\* is a holiday, 0.9 when the previous day is one) and 1.0 when none
\* applies, whatever the order in which the holidays are visited.
C18_ProductoDeTodosLosAjustes ==
    tmp_pc = "fin" =>
        /\ \A d \in 1..Len(feriados_eager) :
              LET propio == IF EsFeriado(d) THEN 600 ELSE 1000
                  antes == IF EsFeriado(d + 1) THEN 1100 ELSE 1000
                  despues == IF EsFeriado(d - 1) THEN 900 ELSE 1000
              IN  impacto_feriado_arr[d] = (((propio * antes) \div 1000) * despues) \div 1000
        /\ \A p \in Ordenes :
              Pasada(feriados_eager, Unos(Len(feriados_eager)), p) = impacto_feriado_arr

\* C18, amended: a holiday has the multiplier 0.6 whatever its neighbours;
\* a day that is not a holiday has the product of 1.1 if the next day is a
\* holiday and 0.9 if the previous day is a holiday (both for a day between
\* two holidays: 0.99), and 1.0 when neither applies.  The result does not
\* depend on the order in which the days are visited.
C18_AjustesDeVecinosSoloEnNoFeriados ==
    tmp_pc = "fin" =>
        /\ \A d \in 1..Len(feriados_eager) :
              impacto_feriado_arr[d] =
                  IF EsFeriado(d) THEN 600
                  ELSE IF EsFeriado(d + 1) /\ EsFeriado(d - 1) THEN 990
                  ELSE IF EsFeriado(d + 1) THEN 1100
                  ELSE IF EsFeriado(d - 1) THEN 900
                  ELSE 1000
        /\ \A p \in Ordenes :
              Pasada(feriados_eager, Unos(Len(feriados_eager)), p) = impacto_feriado_arr

\* A finished pass over a range with a day between two holidays, which has
\* both adjustments.
C18_Witness ==
    /\ tmp_pc = "fin"
    /\ \E d \in 2..(Len(feriados_eager) - 1) :
          /\ ~EsFeriado(d)
          /\ EsFeriado(d - 1)
          /\ EsFeriado(d + 1)
          /\ impacto_feriado_arr[d] = 990

(***************************************************************************)
(* generar_dim_tiempo: bounds of the holiday pass                          *)
(***************************************************************************)
\* C19: the holiday pass reads and writes only positions of the range: the
\* first day is never given a previous day nor the last day a next one,
\* whichever days are holidays, and the pass never ends in IndexError.
C19_AccesosDentroDelRango ==
    /\ tmp_accesos \subseteq 0..(Len(feriados_eager) - 1)
    /\ tmp_pc # "IndexError"

\* A finished pass over a range whose first and last days are holidays.
C19_Witness ==
    /\ tmp_pc = "fin"
    /\ EsFeriado(1)
    /\ EsFeriado(Len(feriados_eager))
    /\ tmp_accesos = 0..(Len(feriados_eager) - 1)

(***************************************************************************)
(* normalizar_pesos: idempotence                                           *)
(***************************************************************************)
\* C20: normalising weights that are already normalised (the normalised
\* field fed back as the weight field) succeeds and leaves every normalised
\* weight unchanged within tolerance: a list of n items moves no weight by
\* more than (n + 1) / 2 millionths, far inside the declared tolerance of
\* the weight sums.
C20_Idempotente ==
    Realimentada =>
        /\ norm_pc # "ValueError"
        /\ norm_pc = "retorno" =>
              \A i \in 1..Len(lista) :
                  2 * Abs(lista[i]["Peso_Normalizado"] - lista[i]["Peso"]) <= Len(lista) + 1

\* A second call has returned and moved one weight by a millionth (weights
\* 1, 1, 4: 0.666667 becomes 0.666666).
C20_Witness ==
    /\ Realimentada
    /\ norm_pc = "retorno"
    /\ \E i \in 1..Len(lista) : Abs(lista[i]["Peso_Normalizado"] - lista[i]["Peso"]) = 1

(***************************************************************************)
(* asegurar_columnas (lines 1756-1789) applied to its own output, with the *)
(* schema drawn over every type a schema can declare: the types of the     *)
(* SCHEMAS in force (lines 1339-1745) and those of the first SCHEMAS       *)
(* (lines 96-125), which adds Categorical and UInt8.                       *)
(***************************************************************************)
TiposDeclarables ==
    {"Utf8", "Categorical", "Int8", "Int16", "Int32", "Int64", "UInt8",
     "Float32", "Float64", "Date", "Boolean"}

ColumnasDoble == {"Cliente_ID", "Nombre_Cliente"}

EsquemasDeclarables ==
    UNION {{[i \in DOMAIN ns |-> [col |-> ns[i], dtype |-> ts[i]]] : ts \in [DOMAIN ns -> TiposDeclarables]}
           : ns \in SecuenciasSinRepetir(ColumnasDoble, MaxColumnas)}

TablasDoble ==
    UNION {{[cols |-> [i \in DOMAIN ns |-> [nombre |-> ns[i], dtype |-> ts[i], valor |-> vs[i]]],
             filas |-> f] :
                ts \in [DOMAIN ns -> TiposModelo], vs \in [DOMAIN ns -> ContenidosModelo],
                f \in (IF Len(ns) = 0 THEN {0} ELSE 0..MaxFilas)}
           : ns \in SecuenciasSinRepetir(ColumnasDoble, MaxColumnas)}

\* df = asegurar_columnas(df, schema, valores_defecto) on the frame the first
\* call returned.
EsqReaplicar ==
    /\ pasada_esq = 1
    /\ esq_pc = "devuelto"
    /\ salida_1' = df
    /\ pasada_esq' = 2
    /\ esq_i' = 1
    /\ esq_pc' = "columnas"
    /\ UNCHANGED <<df, df_entrada, schema, valores_defecto, parquet, registro>>

InitDoble ==
    /\ IdleNorm
    /\ IdleCli
    /\ IdleOrq
    /\ IdleRuta
    /\ IdleProc
    /\ IdleSim
    /\ IdleTiempo
    /\ df_entrada \in TablasDoble
    /\ df = df_entrada
    /\ schema \in EsquemasDeclarables
    /\ valores_defecto \in {{}, {"Nombre_Cliente"}}
    /\ esq_i = 1
    /\ parquet = <<>>
    /\ registro = <<>>
    /\ esq_pc = "columnas"
    /\ salida_1 = <<>>
    /\ pasada_esq = 1

NextDoble ==
    \/ AsegurarColumna /\ UNCHANGED <<varsNorm, varsCli, varsOrq, varsRuta, varsProc, varsSim, varsTiempo, varsDoble>>
    \/ AsegurarSeleccion /\ UNCHANGED <<varsNorm, varsCli, varsOrq, varsRuta, varsProc, varsSim, varsTiempo, varsDoble>>
    \/ EsqReaplicar /\ UNCHANGED <<varsNorm, varsCli, varsOrq, varsRuta, varsProc, varsSim, varsTiempo>>

SpecDoble == InitDoble /\ [][NextDoble]_vars

\* C21: applying asegurar_columnas to its own output, with the same schema
\* and defaults, returns the frame of the first application: the same
\* columns in the same order, with the same types, values and height.
C21_AplicarDosVecesIgualAUna ==
    (pasada_esq = 2 /\ esq_pc = "devuelto") => df = salida_1

\* C21 witness: the second application has returned on a frame the first
\* one had to change: a column was added and a column kept a type the
\* schema does not declare because its cast failed.
C21_Witness ==
    /\ pasada_esq = 2
    /\ esq_pc = "devuelto"
    /\ salida_1 # df_entrada
    /\ \E i \in 1..Len(df.cols) : df.cols[i].nombre \notin NombresDe(df_entrada)
    /\ \E i \in 1..Len(df.cols), k \in 1..Len(schema) :
          schema[k].col = df.cols[i].nombre /\ schema[k].dtype # df.cols[i].dtype

\* C22: every column asegurar_columnas adds holds the caller's explicit
\* default when one is supplied, and otherwise the default of its declared
\* type: empty string for text, 0 for every integer and float type,
\* 1900-01-01 for dates, false for booleans; every declarable type has one
\* of these defaults.
C22_DefectoParaTodoTipo ==
    \A i \in 1..Len(df.cols) :
        LET c == df.cols[i]
        IN  c.nombre \notin NombresDe(df_entrada) =>
                IF c.nombre \in valores_defecto THEN c.valor = "explicito"
                ELSE /\ c.valor \in {"''", "0", "0.0", "1900-01-01", "False"}
                     /\ c.dtype = "Utf8" => c.valor = "''"
                     /\ c.dtype \in {"Int8", "Int16", "Int32", "Int64", "UInt8"} => c.valor = "0"
                     /\ c.dtype \in {"Float32", "Float64"} => c.valor = "0.0"
                     /\ c.dtype = "Date" => c.valor = "1900-01-01"
                     /\ c.dtype = "Boolean" => c.valor = "False"

\* C22, as the code has it: the defaults above hold for the types with a
\* branch at lines 1764-1773 (Utf8, Int8..Int64, Float32, Float64, Date,
\* Boolean); a column of any other type (Categorical, UInt8) is added with
\* the literal None, that is, filled with nulls.
C22_DefectoSoloEnTiposConRama ==
    \A i \in 1..Len(df.cols) :
        LET c == df.cols[i]
        IN  c.nombre \notin NombresDe(df_entrada) =>
                IF c.nombre \in valores_defecto THEN c.valor = "explicito"
                ELSE /\ c.dtype = "Utf8" => c.valor = "''"
                     /\ c.dtype \in {"Int8", "Int16", "Int32", "Int64"} => c.valor = "0"
                     /\ c.dtype \in {"Float32", "Float64"} => c.valor = "0.0"
                     /\ c.dtype = "Date" => c.valor = "1900-01-01"
                     /\ c.dtype = "Boolean" => c.valor = "False"
                     /\ c.dtype \in {"Categorical", "UInt8"} => c.valor = "None"

\* C22 witness: the first application has returned a frame to which it
\* added a Categorical column without explicit default and a column with
\* an explicit default.
C22_Witness ==
    /\ pasada_esq = 1
    /\ esq_pc = "devuelto"
    /\ \E i \in 1..Len(df.cols) :
          /\ df.cols[i].nombre \notin NombresDe(df_entrada) \cup valores_defecto
          /\ df.cols[i].dtype = "Categorical"
    /\ \E i \in 1..Len(df.cols) :
          /\ df.cols[i].nombre \notin NombresDe(df_entrada)
          /\ df.cols[i].nombre \in valores_defecto

\* C23: a column whose cast to the schema type fails does not make
\* asegurar_columnas raise: the call never ends in an exception, and the
\* frame it returns keeps that column with its original type and values
\* next to every other column of the schema.
C23_CastFallidoNoAborta ==
    /\ esq_pc \in {"columnas", "devuelto"}
    /\ (pasada_esq = 1 /\ esq_pc = "devuelto") =>
          \A k \in 1..Len(schema) :
              (/\ schema[k].col \in NombresDe(df_entrada)
               /\ CastFalla(df_entrada, ColumnaDe(df_entrada, schema[k].col), schema[k].dtype))
              => /\ ColumnaDe(df, schema[k].col) = ColumnaDe(df_entrada, schema[k].col)
                 /\ Columnas(df) = [j \in 1..Len(schema) |-> schema[j].col]
                 /\ df.filas = df_entrada.filas

\* C23 witness: the call has returned after the cast of the first schema
\* column failed and the second schema column, absent from the input, was
\* added.
C23_Witness ==
    /\ pasada_esq = 1
    /\ esq_pc = "devuelto"
    /\ Len(schema) = 2
    /\ schema[1].col \in NombresDe(df_entrada)
    /\ CastFalla(df_entrada, ColumnaDe(df_entrada, schema[1].col), schema[1].dtype)
    /\ schema[2].col \notin NombresDe(df_entrada)
    /\ Len(df.cols) = 2

(***************************************************************************)
(* normalizar_pesos: the result depends only on the ratios of the weights  *)
(***************************************************************************)
\* C24: normalizar_pesos gives each item weight / (sum of all weights), to
\* the six decimals it keeps: weights 1, 1, 2 give 0.25, 0.25, 0.5; the
\* same list with every weight multiplied by one positive factor gets the
\* same normalised values; and a total other than 1 (outside the tolerance)
\* never ends the call in an error.
C24_SoloLasProporciones ==
    LET n == Len(lista)
        original == [i \in 1..n |-> IF Escalada THEN lista[i]["Peso_Sin_Escalar"]
                                     ELSE lista[i]["Peso"]]
        total == SumaSeq(original)
    IN  /\ total # 0 => norm_pc \notin {"ValueError", "KeyError"}
        /\ norm_pc = "retorno" =>
              /\ \A i \in 1..n :
                    2 * Abs(lista[i]["Peso_Normalizado"] * total - original[i] * MILLON) <= total
              /\ Escalada =>
                    \A i \in 1..n : lista[i]["Peso_Normalizado"] = lista[i]["Peso_Normalizado_1"]
              /\ original = <<1, 1, 2>> =>
                    [i \in 1..n |-> lista[i]["Peso_Normalizado"]] = <<250000, 250000, 500000>>

\* C24 witness: the weights 1, 1, 2, multiplied by a factor, have been
\* normalised a second time, with a total far from 1.
C24_Witness ==
    /\ Escalada
    /\ norm_pc = "retorno"
    /\ [i \in 1..Len(lista) |-> lista[i]["Peso_Sin_Escalar"]] = <<1, 1, 2>>
    /\ suma_total > 4

(***************************************************************************)
(* generar_dim_cliente_masiva: segment and cluster of a customer           *)
(***************************************************************************)
\* C25: every customer has a segment drawn from the segment-weight table
\* of its own channel, never one of weight 0 in that table, and a cluster
\* of the tier of its segment: 1 or 2 for segments A and B, 3 or 4 for the
\* others.
C25_SegmentoDeLaTablaDeSuCanal ==
    \A k \in 1..Len(ClientesProducidos) :
        LET c     == ClientesProducidos[k]
            tabla == PESO_SEGMENTACION_CANAL(df_canal[c.ID_Canal].Nombre_Canal)
        IN  /\ c.Segmento_Cliente \in DOMAIN tabla
            /\ tabla[c.Segmento_Cliente] > 0
            /\ IF c.Segmento_Cliente \in {"A", "B"} THEN c.Cluster_ID \in {1, 2}
               ELSE c.Cluster_ID \in {3, 4}

\* C25, as the code has it: the cluster always follows the segment, and the
\* segment comes from the table of the channel only when the channel name
\* is a key of PESO_SEGMENTACION_CANAL; a customer of any other channel has
\* segment "E" and cluster 4, drawn from no table.
C25_SegmentoDeTablaSoloSiExiste ==
    \A k \in 1..Len(ClientesProducidos) :
        LET c     == ClientesProducidos[k]
            tabla == PESO_SEGMENTACION_CANAL(df_canal[c.ID_Canal].Nombre_Canal)
        IN  /\ IF c.Segmento_Cliente \in {"A", "B"} THEN c.Cluster_ID \in {1, 2}
               ELSE c.Cluster_ID \in {3, 4}
            /\ DOMAIN tabla # {} => c.Segmento_Cliente \in DOMAIN tabla /\ tabla[c.Segmento_Cliente] > 0
            /\ DOMAIN tabla = {} => c.Segmento_Cliente = "E" /\ c.Cluster_ID = 4

(***************************************************************************)
(* generar_dim_cliente_masiva: creation stamps of a customer               *)
(***************************************************************************)
\* C26: a record created in simulated year y is active at creation, has
\* Ano_Creacion = y and a Fecha_Alta between 1 January and 31 December of
\* y; in every state the year of Fecha_Alta of every record equals its
\* Ano_Creacion, and no Ano_Creacion is later than the year being
\* processed.
C26_AltaEnElAnoDeCreacion ==
    LET n    == Len(anos_simulacion)
        ano  == anos_simulacion[IF cli_i <= n THEN cli_i ELSE n]
    IN  /\ \A k \in 1..Len(new_client_data) :
              LET c == new_client_data[k]
              IN  /\ c.Activo
                  /\ c.Ano_Creacion = ano
                  /\ DiasDeFecha(c.Fecha_Alta) >= DiasDeFecha([ano |-> ano, mes |-> 1, dia |-> 1])
                  /\ DiasDeFecha(c.Fecha_Alta) <= DiasDeFecha([ano |-> ano, mes |-> 12, dia |-> 31])
        /\ \A k \in 1..Len(ClientesProducidos) :
              LET c == ClientesProducidos[k]
              IN  /\ c.Fecha_Alta.ano = c.Ano_Creacion
                  /\ c.Ano_Creacion <= ano

\* C26 witness: the last year is being processed, with a record created in
\* it on 28 December and a record of the first year, created on 28 December
\* too, that went through a churn step and was deactivated.
C26_Witness ==
    /\ cli_i = Len(anos_simulacion)
    /\ cli_i > 1
    /\ \E k \in 1..Len(new_client_data) :
          new_client_data[k].Fecha_Alta =
              [ano |-> anos_simulacion[cli_i], mes |-> 12, dia |-> 28]
    /\ \E k \in 1..Len(clientes_activos_historicos) :
          /\ ~clientes_activos_historicos[k].Activo
          /\ clientes_activos_historicos[k].Fecha_Alta =
                [ano |-> anos_simulacion[1], mes |-> 12, dia |-> 28]

(***************************************************************************)
(* The registry DB_MEMORIA is written once per table                       *)
(***************************************************************************)
\* C27: every change of the registry is the insertion, by the registering
\* step of the top-level sequence, of the one table name whose generator
\* has just returned with its file written, a name not yet in the
\* registry; nothing is overwritten or removed, so after k steps the
\* registry holds k names; and the customer table is registered only after
\* all simulated years have been processed, the simulation running only
\* inside its own step of the sequence.
C27_RegistroInsertaUnaVez ==
    /\ [](/\ Cardinality(DB_MEMORIA) = orq_i - 1
          /\ cli_pc \notin {"idle", "fin"} =>
                /\ orq_pc = "cliente"
                /\ EsPasoCliente
                /\ "DimCliente" \notin DB_MEMORIA
          /\ "DimCliente" \in DB_MEMORIA =>
                /\ cli_pc = "fin"
                /\ cli_i = Len(anos_simulacion) + 1)
    /\ [][(DB_MEMORIA' # DB_MEMORIA \/ orq_i' # orq_i) =>
             /\ orq_pc = "registrar"
             /\ PasoActual.archivo \in archivos
             /\ PasoActual.tabla \notin DB_MEMORIA
             /\ DB_MEMORIA' = DB_MEMORIA \cup {PasoActual.tabla}
             /\ orq_i' = orq_i + 1]_vars

\* C27 witness: the sequence has finished with its sixteen tables
\* registered, after a customer simulation of several years in which a
\* customer was deactivated.
C27_Witness ==
    /\ orq_pc = "fin"
    /\ DB_MEMORIA = {SECUENCIA_GENERADORES[k].tabla : k \in 1..Len(SECUENCIA_GENERADORES)}
    /\ Cardinality(DB_MEMORIA) = 16
    /\ \E k \in 1..Len(clientes_activos_historicos) : ~clientes_activos_historicos[k].Activo

(***************************************************************************)
(* generar_dim_ruta on the center table of generar_dim_cedi                *)
(***************************************************************************)
\* C28: on the center and geography tables of the pipeline every center's
\* Region_Operacion is the Region of some geography row, so its pool of
\* destinations is the region-local one, never the random sample, and the
\* destination of every route lies in the region of its origin center.
C28_DestinoEnLaRegionDelCedi ==
    /\ \A k \in 1..Len(df_cedi) :
          \E g \in 1..Len(df_geografia) : df_geografia[g].Region = df_cedi[k].Region_Operacion
    /\ ruta_pc = "rutas" =>
          geos_objetivo = {g \in 1..Len(df_geografia) :
                              df_geografia[g].Region = df_cedi[ruta_i].Region_Operacion}
    /\ ultima_ruta # <<>> =>
          \A g \in 1..Len(df_geografia), k \in 1..Len(df_cedi) :
              (/\ df_geografia[g].ID_Provincia = ultima_ruta.ID_Provincia_Destino
               /\ df_cedi[k].CEDI_ID = ultima_ruta.ID_CEDI_Origen)
              => df_geografia[g].Region = df_cedi[k].Region_Operacion

\* C28 witness: the run has finished with routes for every center, on a
\* geography table of two regions in which the province of a regional
\* center was not found, its last route going to the second province.
C28_Witness ==
    /\ ruta_pc = "fin"
    /\ df_geografia[1].Region # df_geografia[2].Region
    /\ \E k \in 1..Len(CEDIS_MAESTRO) :
          k <= NumCedis /\ MapaProvincia(df_geografia, CEDIS_MAESTRO[k].Nombre_Provincia) = SinProvincia
    /\ {rutas_data[r].ID_CEDI_Origen : r \in 1..Len(rutas_data)} = 1..Len(df_cedi)
    /\ ultima_ruta.ID_Provincia_Destino = 2

(***************************************************************************)
(* generar_dim_cliente_masiva: deactivation is permanent                   *)
(***************************************************************************)
\* C29: a record whose Activo is false keeps its place and stays inactive
\* through every later step, up to the final table; a churn step never
\* picks it again; and the growth step only appends records with new
\* identifiers.
C29_BajaPermanente ==
    [][ LET cs  == clientes_activos_historicos
            csn == clientes_activos_historicos'
        IN  /\ \A k \in 1..Len(cs) :
                  ~cs[k].Activo =>
                      /\ k <= Len(csn)
                      /\ csn[k].ID_Cliente = cs[k].ID_Cliente
                      /\ ~csn[k].Activo
                      /\ (cli_pc = "churn" /\ cli_pc' = "objetivo") => k \notin idx_churn'
            /\ \A k \in 1..Len(new_client_data') :
                  /\ new_client_data'[k].ID_Cliente \notin IdsDe(cs)
                  /\ new_client_data'[k].Activo
            /\ \A k \in 1..Len(cs) :
                  csn[k].ID_Cliente = cs[k].ID_Cliente /\ (csn[k].Activo => cs[k].Activo)
      ]_vars

\* C29 witness: in the third year, after a churn step that deactivated a
\* customer and while new customers are being created, a customer
\* deactivated in an earlier year is still in the list, inactive.
C29_Witness ==
    /\ cli_i = 3
    /\ cli_pc = "crecer"
    /\ new_client_data # <<>>
    /\ idx_churn # {}
    /\ \E k \in 1..Len(clientes_activos_historicos) :
          ~clientes_activos_historicos[k].Activo /\ k \notin idx_churn


(***************************************************************************)
(* C30: normalizar_pesos is all-or-nothing: once the call has returned or  *)
(* raised, either every item of the list carries the output field or none  *)
(* does, also when some item lacks the weight field.                       *)
(***************************************************************************)
Anotados(l) == {i \in 1..Len(l) : "Peso_Normalizado" \in DOMAIN l[i]}

C30_TodoONada ==
    norm_pc \in {"retorno", "ValueError", "KeyError"}
        => \/ Anotados(lista) = 1..Len(lista)
           \/ Anotados(lista) = {}

\* What the code does: a return annotates every item, the ValueError none, and
\* the KeyError exactly the items before the first one without the weight field.
C30_PrefijoAnotadoEnKeyError ==
    /\ norm_pc = "retorno" => Anotados(lista) = 1..Len(lista)
    /\ norm_pc = "ValueError" => Anotados(lista) = {}
    /\ norm_pc = "KeyError" =>
          /\ norm_i \in 1..Len(lista)
          /\ "Peso" \notin DOMAIN lista[norm_i]
          /\ Anotados(lista) = 1..(norm_i - 1)
          /\ \A i \in 1..(norm_i - 1) : "Peso" \in DOMAIN lista[i]

\* The KeyError raised with the first item annotated and the rest not.
C30_Witness ==
    /\ norm_pc = "KeyError"
    /\ Len(lista) >= 2
    /\ Anotados(lista) = {1}

=============================================================================
